---- MODULE Spec2Model ----
(***************************************************************************)
(* Email ingestion and routing service (ship-sail-mail).                   *)
(*                                                                         *)
(* The module models                                                       *)
(*   - the rule engine (services/rule_engine.py, condition_evaluator.py,   *)
(*     operator_handlers.py, field_extractors.py, action_executor.py),     *)
(*   - the ingestion pipeline (services/email_sync.py) with the mailbox    *)
(*     client, the attachment store and the repository it drives,          *)
(*   - the scheduler's two entry points (tasks/scheduler.py),              *)
(*   - the forwarder (services/email_forwarder.py).                        *)
(*                                                                         *)
(* Strings the rule engine inspects are sequences of one-character         *)
(* strings; Python's None for an optional value is the empty sequence and  *)
(* a present value v is <<v>>.                                             *)
(***************************************************************************)
EXTENDS Integers, Sequences, FiniteSets, TLC

VARIABLES
    \* ---- ingestion pipeline (Spec)
    is_syncing,       \* EmailSyncService.is_syncing
    sync_stats,       \* EmailSyncService.sync_stats
    last_sync_time,   \* EmailSyncService.last_sync_time (<<>> is None)
    connected,        \* EmailReader.connected of the service's reader
    clock,            \* datetime.now() at run starts: the number of runs started
    task_pc,          \* per task: "idle" or "running" (suspended inside sync_emails)
    mail_uids,        \* per task: the local mail_uids of its sync_emails call
    idx,              \* per task: position of the for loop in mail_uids
    start_time,       \* per task: the local sync_start_time
    response,         \* per task: what its last call answered
    flagged,          \* upstream mailbox: uid -> the \Flagged flag
    emails,           \* repository: rows of table emails, in insertion order
    attachments,      \* repository: rows of table attachments
    files,            \* attachment store: the files on disk
    last,             \* inputs and path of the most recent per-uid step
    \* ---- rule engine on its own (SpecRules)
    re_rules,         \* the rule table given to the engine
    re_pc,            \* "init", "loop" or "done" ("off" under Spec)
    re_sorted,        \* sorted_rules of the running apply_rules call
    re_pos,           \* position of the for loop in sorted_rules
    re_st,            \* loop state: email_data, final_result, evaluation trace
    \* ---- forwarder (SpecForward)
    email_forwards,   \* repository: rows of table email_forwards
    fw,               \* per forward request: position and locals of forward_email
    \* ---- repository transaction (SpecSave)
    tx                \* the save_email_with_attachments call in progress

pipeline_vars == <<is_syncing, sync_stats, last_sync_time, connected, clock, task_pc,
                   mail_uids, idx, start_time, response, flagged, emails,
                   attachments, files, last>>
engine_vars == <<re_rules, re_pc, re_sorted, re_pos, re_st>>
forward_vars == <<email_forwards, fw>>
vars == <<pipeline_vars, engine_vars, forward_vars, tx>>

(***************************************************************************)
(* Bounds of the model.                                                    *)
(***************************************************************************)
NumUids == 3      \* messages held by the upstream mailbox
MaxRuns == 2      \* ingestion runs started in one behaviour
MaxRules == 2     \* rows of the rule table explored by SpecRules

(***************************************************************************)
(* Strings.                                                                *)
(***************************************************************************)
Range(s) == {s[i] : i \in 1..Len(s)}

\* str.lower() on one character of the alphabet used here
LowerChar(c) ==
    CASE c = "N" -> "n" [] c = "X" -> "x" [] c = "H" -> "h" [] c = "U" -> "u" [] OTHER -> c

\* str.lower()
lower(s) == [i \in 1..Len(s) |-> LowerChar(s[i])]

\* Python's `m in f` on strings
str_in(m, f) == \E i \in 0..(Len(f) - Len(m)) : SubSeq(f, i + 1, i + Len(m)) = m

\* str.startswith / str.endswith
startswith(f, m) == Len(m) <= Len(f) /\ SubSeq(f, 1, Len(m)) = m
endswith(f, m) == Len(m) <= Len(f) /\ SubSeq(f, Len(f) - Len(m) + 1, Len(f)) = m

\* str.strip() for the blank " "
RECURSIVE lstrip(_)
lstrip(s) == IF s # <<>> /\ Head(s) = " " THEN lstrip(Tail(s)) ELSE s
RECURSIVE rstrip(_)
rstrip(s) == IF s # <<>> /\ s[Len(s)] = " " THEN rstrip(SubSeq(s, 1, Len(s) - 1)) ELSE s
strip(s) == rstrip(lstrip(s))

\* re.sub(r'\s+', ' ', s): every run of blanks becomes one blank
RECURSIVE collapse_ws(_)
collapse_ws(s) ==
    IF Len(s) < 2 THEN s
    ELSE IF s[1] = " " /\ s[2] = " " THEN collapse_ws(Tail(s))
    ELSE <<s[1]>> \o collapse_ws(Tail(s))

Min(S) == CHOOSE x \in S : \A y \in S : x <= y

(***************************************************************************)
(* Field extractors (services/field_extractors.py).                        *)
(***************************************************************************)
\* FieldExtractor._safe_get: the value of a string key, stripped
safe_get(email_data, key) == strip(email_data[key])

\* FieldExtractor._handle_encoding_error: control characters removed (the
\* alphabet has none), then strip()
handle_encoding_error(text) == strip(text)

\* re.search(r'<([^>]+)>', s): the start positions at which the pattern matches
angle_starts(s) ==
    {i \in 1..Len(s) : /\ s[i] = "<"
                       /\ i + 1 <= Len(s)
                       /\ s[i + 1] # ">"
                       /\ \E j \in (i + 2)..Len(s) : s[j] = ">"}

\* group(1) of the leftmost match
angle_group(s) ==
    LET i == Min(angle_starts(s))
        j == Min({k \in (i + 2)..Len(s) : s[k] = ">"})
    IN  SubSeq(s, i + 1, j - 1)

\* SenderExtractor.extract
SenderExtractor(email_data) ==
    LET sender == safe_get(email_data, "sender")
    IN  IF sender = <<>> THEN <<>>
        ELSE LET cleaned == handle_encoding_error(sender)
             IN  IF angle_starts(cleaned) # {}
                 THEN strip(angle_group(cleaned))
                 ELSE strip(cleaned)

\* SubjectExtractor.extract
SubjectExtractor(email_data) ==
    LET subject == safe_get(email_data, "subject")
    IN  IF subject = <<>> THEN <<>>
        ELSE strip(collapse_ws(handle_encoding_error(subject)))

\* FieldExtractorFactory.extract_field: only sender and subject have extractors
extract_field(field_type, email_data) ==
    CASE field_type = "sender" -> SenderExtractor(email_data)
      [] field_type = "subject" -> SubjectExtractor(email_data)
      [] OTHER -> <<>>

(***************************************************************************)
(* Operator handlers (services/operator_handlers.py).                      *)
(***************************************************************************)
\* OperatorHandler._prepare_values
prepare_values(field_value, match_value, case_sensitive) ==
    IF case_sensitive THEN <<field_value, match_value>>
    ELSE <<lower(field_value), lower(match_value)>>

\* re.compile(pattern) succeeds; of the alphabet only "[" is a metacharacter,
\* and a character class that is never closed is an re.error
regex_compiles(pattern) == "[" \notin Range(pattern)

\* compiled_pattern.search(field_str) for a pattern of literal characters
regex_search(pattern, field_str, case_sensitive) ==
    IF case_sensitive THEN str_in(pattern, field_str)
    ELSE str_in(lower(pattern), lower(field_str))

\* RegexOperator.match
RegexOperator(field_value, match_value, case_sensitive) ==
    IF match_value = <<>> THEN FALSE
    ELSE IF ~regex_compiles(match_value) THEN FALSE
    ELSE regex_search(match_value, field_value, case_sensitive)

not_regex_false_on_error(field_value, match_value, case_sensitive) ==
    match_value # <<>> /\ regex_compiles(match_value)
        /\ ~regex_search(match_value, field_value, case_sensitive)

\* NotRegexOperator.match
NotRegexOperator(field_value, match_value, case_sensitive) ==
    IF match_value = <<>> THEN TRUE
    ELSE IF ~regex_compiles(match_value) THEN TRUE
    ELSE ~regex_search(match_value, field_value, case_sensitive)

\* OperatorHandlerFactory.execute_operation
execute_operation(operator, field_value, match_value, case_sensitive) ==
    LET pv == prepare_values(field_value, match_value, case_sensitive)
        f == pv[1]
        m == pv[2]
    IN  CASE operator = "contains" -> str_in(m, f)
          [] operator = "not_contains" -> ~str_in(m, f)
          [] operator = "equals" -> f = m
          [] operator = "not_equals" -> f # m
          [] operator = "starts_with" -> startswith(f, m)
          [] operator = "ends_with" -> endswith(f, m)
          [] operator = "regex" -> RegexOperator(field_value, match_value, case_sensitive)
          [] operator = "not_regex" -> NotRegexOperator(field_value, match_value, case_sensitive)
          [] OTHER -> FALSE

(***************************************************************************)
(* Condition evaluator (services/condition_evaluator.py).                  *)
(***************************************************************************)
\* ConditionEvaluator.evaluate_condition
evaluate_condition(condition, email_data) ==
    execute_operation(condition.operator,
                      extract_field(condition.field_type, email_data),
                      condition.match_value, condition.case_sensitive)

\* where the evaluation of one condition may raise: inside the field
\* extractor, inside the operator handler's match, or in evaluate_condition
\* itself around the two calls
CondFaults == {"none", "extract", "match", "condition"}

except_always_false(operator) == FALSE

\* what the except branch of a handler's match returns: True in
\* NotRegexOperator, False in every other handler
match_except(operator) == operator = "not_regex"

\* ConditionEvaluator.evaluate_condition when fault raises: an extractor that
\* raises gives the empty string and the operator is applied to it, a handler
\* that raises gives its except value, anything else is caught by
\* evaluate_condition and gives False
evaluate_condition_with(condition, email_data, fault) ==
    IF fault = "condition" THEN FALSE
    ELSE IF fault = "match" THEN match_except(condition.operator)
    ELSE IF fault = "extract"
         THEN execute_operation(condition.operator, <<>>, condition.match_value,
                                condition.case_sensitive)
    ELSE evaluate_condition(condition, email_data)

\* ConditionEvaluator._evaluate_and_conditions: False at the first false condition
RECURSIVE evaluate_and_conditions(_, _)
evaluate_and_conditions(conditions, email_data) ==
    IF conditions = <<>> THEN TRUE
    ELSE IF ~evaluate_condition(Head(conditions), email_data) THEN FALSE
    ELSE evaluate_and_conditions(Tail(conditions), email_data)

\* ConditionEvaluator._evaluate_or_conditions: True at the first true condition
RECURSIVE evaluate_or_conditions(_, _)
evaluate_or_conditions(conditions, email_data) ==
    IF conditions = <<>> THEN FALSE
    ELSE IF evaluate_condition(Head(conditions), email_data) THEN TRUE
    ELSE evaluate_or_conditions(Tail(conditions), email_data)

evaluate_nonempty_only(group, email_data) ==
    IF group.group_logic = "AND"
    THEN evaluate_and_conditions(group.conditions, email_data)
    ELSE IF group.group_logic = "OR"
         THEN evaluate_or_conditions(group.conditions, email_data)
    ELSE FALSE

\* ConditionEvaluator.evaluate_group
evaluate_group(group, email_data) ==
    IF group.conditions = <<>> THEN TRUE
    ELSE IF group.group_logic = "AND"
         THEN evaluate_and_conditions(group.conditions, email_data)
    ELSE IF group.group_logic = "OR"
         THEN evaluate_or_conditions(group.conditions, email_data)
    ELSE FALSE

RECURSIVE all_group_results(_, _, _)
all_group_results(groups, logic, email_data) ==
    IF groups = <<>> THEN <<>>
    ELSE <<evaluate_group(Head(groups), email_data)>>
         \o all_group_results(Tail(groups), logic, email_data)

\* the for loop of evaluate_rule: group_results, with the global short circuit
RECURSIVE group_results(_, _, _)
group_results(groups, logic, email_data) ==
    IF groups = <<>> THEN <<>>
    ELSE LET r == evaluate_group(Head(groups), email_data)
         IN  IF (logic = "AND" /\ ~r) \/ (logic = "OR" /\ r) THEN <<r>>
             ELSE <<r>> \o group_results(Tail(groups), logic, email_data)

\* ConditionEvaluator.evaluate_rule
evaluate_rule(rule, email_data) ==
    IF rule.condition_groups = <<>> THEN TRUE
    ELSE LET rs == group_results(rule.condition_groups, rule.global_group_logic, email_data)
         IN  IF rule.global_group_logic = "AND" THEN \A i \in 1..Len(rs) : rs[i]
             ELSE IF rule.global_group_logic = "OR" THEN \E i \in 1..Len(rs) : rs[i]
             ELSE FALSE

(***************************************************************************)
(* Action executor (services/action_executor.py).                          *)
(*                                                                         *)
(* An action is [id, action_type, action_config]; action_config is         *)
(* [present, field_name, field_value], present = FALSE standing for a      *)
(* config that is None or empty.                                           *)
(***************************************************************************)
\* SkipActionHandler.execute
SkipActionHandler(action, email_data) ==
    [email_data |-> email_data, success |-> TRUE, should_skip |-> TRUE,
     message |-> "skip", action_id |-> action.id]

\* SetFieldActionHandler._parse_set_field_action: "ok" or the ValueError raised
parse_set_field_action(action) ==
    IF ~action.action_config.present THEN "missing action_config"
    ELSE IF action.action_config.field_name = "" THEN "missing field_name"
    ELSE IF action.action_config.field_name # "dispatcher_id" THEN "unsupported field"
    ELSE "ok"

\* SetFieldActionHandler.execute
SetFieldActionHandler(action, email_data) ==
    LET parsed == parse_set_field_action(action)
    IN  IF parsed = "ok"
        THEN [email_data |-> [email_data EXCEPT
                                 ![action.action_config.field_name] =
                                     action.action_config.field_value],
              success |-> TRUE, should_skip |-> FALSE,
              message |-> "field set", action_id |-> action.id]
        ELSE [email_data |-> email_data, success |-> FALSE, should_skip |-> FALSE,
              message |-> parsed, action_id |-> action.id]

\* ActionExecutor.execute_action
execute_action(action, email_data) ==
    CASE action.action_type = "skip" -> SkipActionHandler(action, email_data)
      [] action.action_type = "set_field" -> SetFieldActionHandler(action, email_data)
      [] OTHER -> [email_data |-> email_data, success |-> FALSE, should_skip |-> FALSE,
                   message |-> "unsupported action type", action_id |-> action.id]

\* the for loop of execute_actions_batch: it ends at the first result that
\* carries should_skip
RECURSIVE actions_loop(_, _, _)
actions_loop(actions, email_data, action_results) ==
    IF actions = <<>>
    THEN [email_data |-> email_data, action_results |-> action_results,
          should_skip |-> FALSE]
    ELSE LET r == execute_action(Head(actions), email_data)
         IN  IF r.should_skip
             THEN [email_data |-> r.email_data,
                   action_results |-> Append(action_results, r),
                   should_skip |-> TRUE]
             ELSE actions_loop(Tail(actions), r.email_data, Append(action_results, r))

\* ActionExecutor.execute_action when the handler raises: the handlers'
\* statements that can raise (reading the dict, parsing the config, formatting
\* the log line of the old and new value) come before the assignment to the
\* dict, and the except branch returns a failed result
execute_action_with(action, email_data, fault) ==
    IF fault = "raise"
    THEN [email_data |-> email_data, success |-> FALSE, should_skip |-> FALSE,
          message |-> "action raised", action_id |-> action.id]
    ELSE execute_action(action, email_data)

no_messages(action_results) == <<>>

\* the messages of the failed results, in order
RECURSIVE failed_messages(_)
failed_messages(action_results) ==
    IF action_results = <<>> THEN <<>>
    ELSE (IF ~Head(action_results).success THEN <<Head(action_results).message>> ELSE <<>>)
         \o failed_messages(Tail(action_results))

\* RuleResult(...) of models/rule_models.py with the fields the services use
RuleResult(should_skip, success) ==
    [should_skip |-> should_skip, field_modifications |-> <<>>,
     matched_rules |-> <<>>, error_messages |-> <<>>, success |-> success]

\* ActionExecutor.execute_actions_batch
execute_actions_batch(actions, email_data) ==
    LET run == actions_loop(actions, email_data, <<>>)
        failed == failed_messages(run.action_results)
    IN  [email_data |-> run.email_data,
         executed |-> [i \in 1..Len(run.action_results) |-> run.action_results[i].action_id],
         result |-> [RuleResult(run.should_skip, failed = <<>>)
                        EXCEPT !.error_messages = failed]]

(***************************************************************************)
(* Rule table (services/rules_database.py) and rule engine                 *)
(* (services/rule_engine.py).                                              *)
(*                                                                         *)
(* A rule is [id, name, is_active, priority, stop_on_match,                *)
(* global_group_logic, condition_groups, actions]; a condition group is    *)
(* [group_logic, conditions]; a condition is [field_type, operator,        *)
(* match_value, case_sensitive].                                           *)
(***************************************************************************)
RemoveAt(s, i) == SubSeq(s, 1, i - 1) \o SubSeq(s, i + 1, Len(s))

\* ORDER BY priority DESC, id ASC: a comes before b
sql_before(a, b) == a.priority > b.priority \/ (a.priority = b.priority /\ a.id < b.id)

RECURSIVE order_by(_)
order_by(rows) ==
    IF rows = <<>> THEN <<>>
    ELSE LET i == CHOOSE k \in 1..Len(rows) :
                      \A j \in 1..Len(rows) : j = k \/ sql_before(rows[k], rows[j])
         IN  <<rows[i]>> \o order_by(RemoveAt(rows, i))

\* ORDER BY action_order ASC, id ASC: a comes before b
action_before(a, b) ==
    a.action_order < b.action_order \/ (a.action_order = b.action_order /\ a.id < b.id)

rows_as_stored(action_rows) == action_rows

\* RulesDatabaseService._get_rule_actions: the rule's rows of rule_actions
\* ORDER BY action_order ASC, id ASC
RECURSIVE get_rule_actions(_)
get_rule_actions(action_rows) ==
    IF action_rows = <<>> THEN <<>>
    ELSE LET i == CHOOSE k \in 1..Len(action_rows) :
                      \A j \in 1..Len(action_rows) :
                          j = k \/ action_before(action_rows[k], action_rows[j])
         IN  <<action_rows[i]>> \o get_rule_actions(RemoveAt(action_rows, i))

\* RulesDatabaseService.get_all_active_rules: WHERE is_active = 1
\* ORDER BY priority DESC, id ASC, each rule with its actions loaded
get_all_active_rules(table) ==
    LET rule_rows == order_by(SelectSeq(table, LAMBDA r : r.is_active))
    IN  [k \in 1..Len(rule_rows) |->
            [rule_rows[k] EXCEPT !.actions = get_rule_actions(@)]]

\* the sort key (x.priority, x.id) of apply_rules: a's key is greater than b's
key_greater(a, b) == a.priority > b.priority \/ (a.priority = b.priority /\ a.id > b.id)

\* sorted(rules, key=lambda x: (x.priority, x.id), reverse=True): greatest key
\* first, equal keys in their given order
RECURSIVE sorted_reverse(_)
sorted_reverse(rules) ==
    IF rules = <<>> THEN <<>>
    ELSE LET maxima == {k \in 1..Len(rules) :
                           \A j \in 1..Len(rules) : ~key_greater(rules[j], rules[k])}
             i == Min(maxima)
         IN  <<rules[i]>> \o sorted_reverse(RemoveAt(rules, i))

\* RuleResult.add_matched_rule
add_matched_rule(result, rule_name) ==
    IF rule_name \in Range(result.matched_rules) THEN result
    ELSE [result EXCEPT !.matched_rules = Append(@, rule_name)]

\* RuleEngine._execute_rule_actions
execute_rule_actions(rule, email_data) ==
    IF rule.actions = <<>>
    THEN [email_data |-> email_data, executed |-> <<>>,
          result |-> RuleResult(FALSE, TRUE)]
    ELSE execute_actions_batch(rule.actions, email_data)

\* RuleEngine._merge_action_result
merge_action_result(final_result, action_result) ==
    [final_result EXCEPT
        !.should_skip = @ \/ action_result.should_skip,
        !.error_messages = @ \o action_result.error_messages,
        !.success = @ /\ action_result.success]

break_only_on_skip(rule, final_result) == final_result.should_skip

\* the two break tests at the end of a matched rule's iteration
break_after_match(rule, final_result) ==
    rule.stop_on_match \/ final_result.should_skip

\* state of the for loop of apply_rules before its first iteration
loop_start(email_data) ==
    [email_data |-> email_data, final_result |-> RuleResult(FALSE, TRUE),
     evaluated |-> <<>>, executed |-> <<>>, rules_matched |-> 0, broke |-> FALSE]

stop_without_match(st, rule) ==
    IF ~evaluate_rule(rule, st.email_data)
    THEN [st EXCEPT !.evaluated = Append(@, rule.id), !.broke = rule.stop_on_match]
    ELSE LET acted == execute_rule_actions(rule, st.email_data)
             merged == merge_action_result(
                           add_matched_rule(st.final_result, rule.name), acted.result)
         IN  [email_data |-> acted.email_data,
              final_result |-> merged,
              evaluated |-> Append(st.evaluated, rule.id),
              executed |-> st.executed \o acted.executed,
              rules_matched |-> st.rules_matched + 1,
              broke |-> break_after_match(rule, merged)]

\* one iteration of the for loop of apply_rules; evaluated lists the ids of the
\* rules whose conditions were evaluated (rules_executed is its length) and
\* executed the ids of the actions that ran
loop_body(st, rule) ==
    IF ~evaluate_rule(rule, st.email_data)
    THEN [st EXCEPT !.evaluated = Append(@, rule.id)]
    ELSE LET acted == execute_rule_actions(rule, st.email_data)
             merged == merge_action_result(
                           add_matched_rule(st.final_result, rule.name), acted.result)
         IN  [email_data |-> acted.email_data,
              final_result |-> merged,
              evaluated |-> Append(st.evaluated, rule.id),
              executed |-> st.executed \o acted.executed,
              rules_matched |-> st.rules_matched + 1,
              broke |-> break_after_match(rule, merged)]

RECURSIVE rules_loop(_, _)
rules_loop(rules, st) ==
    IF rules = <<>> \/ st.broke THEN st
    ELSE rules_loop(Tail(rules), loop_body(st, Head(rules)))

skipping_result == RuleResult(TRUE, TRUE)

\* RuleEngine._create_empty_result
create_empty_result == RuleResult(FALSE, TRUE)

skipping_error_result(error_message) ==
    [RuleResult(TRUE, FALSE) EXCEPT !.error_messages = <<error_message>>]

\* RuleEngine._create_error_result
create_error_result(error_message) ==
    [RuleResult(FALSE, FALSE) EXCEPT !.error_messages = <<error_message>>]

\* RuleEngine.apply_rules(email_data) with rules = None: load is "ok",
\* "error" when loading the active rules from the table raises, or "raise"
\* when an exception escapes after the for loop and reaches the outer except
apply_rules(email_data, table, load) ==
    IF load = "error"
    THEN [email_data |-> email_data, result |-> create_error_result("rule load failed"),
          evaluated |-> <<>>]
    ELSE LET rules == get_all_active_rules(table)
         IN  IF rules = <<>>
             THEN [email_data |-> email_data, result |-> create_empty_result,
                   evaluated |-> <<>>]
             ELSE LET st == rules_loop(sorted_reverse(rules), loop_start(email_data))
                  IN  [email_data |-> st.email_data,
                       result |-> IF load = "raise"
                                  THEN create_error_result("rule engine failed")
                                  ELSE st.final_result,
                       evaluated |-> st.evaluated]

(***************************************************************************)
(* Inputs: messages and rule tables.                                       *)
(***************************************************************************)
\* the dict returned by EmailParser.parse_full_email, with the dispatcher_id
\* key a set_field action adds (absent, that is None, after parsing)
ParsedEmail(message_id, sender, subject, atts) ==
    [message_id |-> message_id, sender |-> sender, subject |-> subject,
     attachments |-> atts, dispatcher_id |-> <<>>]

NoConfig == [present |-> FALSE, field_name |-> "", field_value |-> <<>>]
SkipAction(id) ==
    [id |-> id, action_type |-> "skip", action_config |-> NoConfig, action_order |-> id]
SetFieldAction(id, name, value) ==
    [id |-> id, action_type |-> "set_field", action_order |-> id,
     action_config |-> [present |-> TRUE, field_name |-> name, field_value |-> <<value>>]]

Condition(field_type, operator, match_value, case_sensitive) ==
    [field_type |-> field_type, operator |-> operator,
     match_value |-> match_value, case_sensitive |-> case_sensitive]
Group(logic, conditions) == [group_logic |-> logic, conditions |-> conditions]

Rule(id, is_active, priority, stop_on_match, logic, groups, actions) ==
    [id |-> id, name |-> <<"rule", id>>, is_active |-> is_active,
     priority |-> priority, stop_on_match |-> stop_on_match,
     global_group_logic |-> logic, condition_groups |-> groups, actions |-> actions]

\* sender contains "n@" (a no-reply sender), case-insensitive
FromNoReply == <<Group("AND", <<Condition("sender", "contains", <<"N", "@">>, FALSE)>>)>>

\* the rows a rule table may hold under a given id; the last four have one
\* condition group without conditions
RuleChoices(id) ==
    {Rule(id, a, p, s, "AND", g, acts) :
        a \in BOOLEAN, p \in {10, 20}, s \in BOOLEAN, g \in {<<>>, FromNoReply},
        acts \in {<<>>, <<SkipAction(id)>>,
                  <<SetFieldAction(id, "dispatcher_id", IF id % 2 = 1 THEN 7 ELSE 9)>>}}
    \cup {Rule(id, TRUE, 10, FALSE, logic, <<Group(group_logic, <<>>)>>,
                <<SetFieldAction(id, "dispatcher_id", IF id % 2 = 1 THEN 7 ELSE 9)>>) :
             logic \in {"AND", "OR"}, group_logic \in {"AND", "OR"}}

\* rule tables of up to n rows, row k having id k
RECURSIVE RuleTables(_)
RuleTables(n) ==
    IF n = 0 THEN {<<>>}
    ELSE LET shorter == RuleTables(n - 1)
         IN  shorter \cup {Append(t, r) : t \in {u \in shorter : Len(u) = n - 1},
                                          r \in RuleChoices(n)}

TestEmails ==
    {ParsedEmail("a", <<"n", "@", "x">>, <<"H", "i">>, <<>>),
     ParsedEmail("b", <<"U", " ", "<", "u", "@", "x", ">">>, <<"H", "i">>, <<>>)}

(***************************************************************************)
(* SpecRules: one apply_rules call, one loop iteration per step.           *)
(***************************************************************************)
PipelineIdle ==
    /\ is_syncing = FALSE
    /\ sync_stats = <<>>
    /\ last_sync_time = <<>>
    /\ connected = FALSE
    /\ clock = 0
    /\ task_pc = <<>>
    /\ mail_uids = <<>>
    /\ idx = <<>>
    /\ start_time = <<>>
    /\ response = <<>>
    /\ flagged = <<>>
    /\ emails = <<>>
    /\ attachments = <<>>
    /\ files = {}
    /\ last = <<>>
    /\ email_forwards = <<>>
    /\ fw = <<>>
    /\ tx = <<>>

InitRules ==
    /\ PipelineIdle
    /\ re_rules \in RuleTables(MaxRules)
    /\ re_pc = "init"
    /\ re_sorted = <<>>
    /\ re_pos = 0
    /\ re_st \in {loop_start(e) : e \in TestEmails}

\* apply_rules up to the for loop: load the active rules, sort them
ReLoad ==
    /\ re_pc = "init"
    /\ LET rules == get_all_active_rules(re_rules)
       IN  /\ re_sorted' = sorted_reverse(rules)
           /\ re_pos' = 1
           /\ re_pc' = IF rules = <<>> THEN "done" ELSE "loop"
    /\ UNCHANGED <<re_rules, re_st, pipeline_vars, forward_vars, tx>>

\* one iteration of the for loop, and the loop's exit
ReIterate ==
    /\ re_pc = "loop"
    /\ LET st == loop_body(re_st, re_sorted[re_pos])
       IN  /\ re_st' = st
           /\ re_pos' = re_pos + 1
           /\ re_pc' = IF st.broke \/ re_pos = Len(re_sorted) THEN "done" ELSE "loop"
    /\ UNCHANGED <<re_rules, re_sorted, pipeline_vars, forward_vars, tx>>

NextRules == ReLoad \/ ReIterate

SpecRules == InitRules /\ [][NextRules]_vars

(***************************************************************************)
(* SpecCond: the conditions of one condition group of one rule, one        *)
(* evaluate_condition call per step.                                       *)
(***************************************************************************)
Operators == {"contains", "not_contains", "equals", "not_equals", "starts_with",
              "ends_with", "regex", "not_regex"}

\* the conditions explored: on a field with an extractor and on one without,
\* with an empty match value, a literal one and the malformed pattern "["
CondChoices ==
    {Condition(ft, op, mv, cs) :
        ft \in {"sender", "body"}, op \in Operators,
        mv \in {<<>>, <<"N", "@">>, <<"[">>}, cs \in BOOLEAN}

\* what may follow the explored condition in its group: nothing, a condition
\* that holds of every message here, or one that holds of none
SecondChoices ==
    {<<>>, <<Condition("sender", "contains", <<"@">>, FALSE)>>,
     <<Condition("sender", "equals", <<"x">>, TRUE)>>}

InitCond ==
    /\ PipelineIdle
    /\ \E c \in CondChoices, more \in SecondChoices, logic \in {"AND", "OR"} :
          /\ re_rules = <<Rule(1, TRUE, 10, FALSE, "AND", <<Group(logic, <<c>> \o more)>>, <<>>)>>
          /\ re_sorted = <<c>> \o more
    /\ re_pc = "cond"
    /\ re_pos = 1
    /\ re_st \in {[email_data |-> e, results |-> <<>>, faults |-> <<>>, matched |-> FALSE] :
                     e \in TestEmails}

\* one iteration of the loop of _evaluate_and_conditions / _evaluate_or_conditions
CeCondition ==
    /\ re_pc = "cond"
    /\ \E fault \in CondFaults :
         \E r \in {evaluate_condition_with(re_sorted[re_pos], re_st.email_data, fault)} :
            LET logic == re_rules[1].condition_groups[1].group_logic
                decided == (logic = "AND" /\ ~r) \/ (logic = "OR" /\ r)
            IN  /\ re_st' = [re_st EXCEPT !.results = Append(@, r),
                                          !.faults = Append(@, fault)]
                /\ re_pc' = IF decided \/ re_pos = Len(re_sorted) THEN "group" ELSE "cond"
                /\ re_pos' = re_pos + 1
    /\ UNCHANGED <<re_rules, re_sorted, pipeline_vars, forward_vars, tx>>

\* the return of the loop, which evaluate_group and evaluate_rule pass on
CeGroup ==
    /\ re_pc = "group"
    /\ LET logic == re_rules[1].condition_groups[1].group_logic
           last_result == re_st.results[Len(re_st.results)]
       IN  re_st' = [re_st EXCEPT !.matched = last_result]
    /\ re_pc' = "done"
    /\ UNCHANGED <<re_rules, re_sorted, re_pos, pipeline_vars, forward_vars, tx>>

NextCond == CeCondition \/ CeGroup

SpecCond == InitCond /\ [][NextCond]_vars

(***************************************************************************)
(* SpecActions: apply_rules on a table of one active rule without          *)
(* conditions, from the point where the rule has matched, one action of    *)
(* execute_actions_batch per step.                                         *)
(***************************************************************************)
MaxActions == 2

\* the actions explored: skip, set_field on dispatcher_id, on a field that is
\* not supported, without field name, without config, and an action type
\* without handler
ActionChoices(id) ==
    {SkipAction(id), SetFieldAction(id, "dispatcher_id", 7),
     SetFieldAction(id, "status", 5), SetFieldAction(id, "", 5),
     [id |-> id, action_type |-> "set_field", action_config |-> NoConfig,
      action_order |-> id],
     [id |-> id, action_type |-> "forward", action_config |-> NoConfig,
      action_order |-> id]}

\* the action_order column of the k-th of n rows: rising with the id, falling,
\* or the same in every row
ActionOrders == {"asc", "desc", "tie"}
action_order_of(order, k, n) ==
    CASE order = "asc" -> k [] order = "desc" -> n + 1 - k [] OTHER -> 1

RECURSIVE ActionLists(_)
ActionLists(n) ==
    IF n = 0 THEN {<<>>}
    ELSE LET shorter == ActionLists(n - 1)
         IN  shorter \cup {Append(l, a) : l \in {x \in shorter : Len(x) = n - 1},
                                          a \in ActionChoices(n)}

InitActions ==
    /\ PipelineIdle
    /\ \E acts \in ActionLists(MaxActions), order \in ActionOrders :
          LET action_rows == [k \in 1..Len(acts) |->
                                 [acts[k] EXCEPT !.action_order =
                                                     action_order_of(order, k, Len(acts))]]
          IN  /\ re_rules = <<Rule(1, TRUE, 10, FALSE, "AND", <<>>, action_rows)>>
              /\ re_sorted = get_rule_actions(action_rows)
              /\ re_pc = IF acts = <<>> THEN "merge" ELSE "action"
    /\ re_pos = 1
    /\ \E e \in TestEmails :
          re_st = [given |-> e, email_data |-> e,
                   final_result |-> add_matched_rule(RuleResult(FALSE, TRUE),
                                                     <<"rule", 1>>),
                   action_results |-> <<>>, faults |-> <<>>, dicts |-> <<>>]

\* one iteration of the for loop of execute_actions_batch
AeAction ==
    /\ re_pc = "action"
    /\ \E fault \in {"none", "raise"} :
         \E r \in {execute_action_with(re_sorted[re_pos], re_st.email_data, fault)} :
            /\ re_st' = [re_st EXCEPT !.email_data = r.email_data,
                                      !.action_results = Append(@, r),
                                      !.faults = Append(@, fault),
                                      !.dicts = Append(@, r.email_data)]
            /\ re_pc' = IF r.should_skip \/ re_pos = Len(re_sorted) THEN "merge" ELSE "action"
    /\ re_pos' = re_pos + 1
    /\ UNCHANGED <<re_rules, re_sorted, pipeline_vars, forward_vars, tx>>

\* the end of execute_actions_batch, _merge_action_result and the return of
\* apply_rules
AeMerge ==
    /\ re_pc = "merge"
    /\ LET failed == failed_messages(re_st.action_results)
           should_skip == \E k \in 1..Len(re_st.action_results) :
                              re_st.action_results[k].should_skip
           action_result == IF re_sorted = <<>> THEN RuleResult(FALSE, TRUE)
                            ELSE [RuleResult(should_skip, failed = <<>>)
                                     EXCEPT !.error_messages = failed]
       IN  re_st' = [re_st EXCEPT !.final_result =
                                      merge_action_result(@, action_result)]
    /\ re_pc' = "done"
    /\ UNCHANGED <<re_rules, re_sorted, re_pos, pipeline_vars, forward_vars, tx>>

NextActions == AeAction \/ AeMerge

SpecActions == InitActions /\ [][NextActions]_vars

(***************************************************************************)
(* The upstream mailbox, the rule table and the repository of the          *)
(* ingestion pipeline.                                                     *)
(***************************************************************************)
Tasks == {"sched", "manual"}
Uids == 1..NumUids

\* an attachment of the parsed message: its name and its bytes
MailAttachment(filename, content) == [filename |-> filename, content |-> content]

\* what EmailParser.parse_full_email gives for the raw bytes of uid u: uid 1
\* comes from a no-reply sender, uid 2 carries two attachments, uid 3 has no
\* Message-ID header, every further uid is a second copy of uid 2's message
Message(u) ==
    CASE u = 1 -> ParsedEmail("a", <<"n", "@", "x">>, <<"H", "i">>, <<>>)
      [] u = 3 -> ParsedEmail("", <<"u", "@", "x">>, <<"H", "i">>, <<>>)
      [] OTHER -> ParsedEmail("b", <<"u", "@", "x">>, <<"H", "i">>,
                              <<MailAttachment("f", <<1>>), MailAttachment("g", <<1, 2>>)>>)

\* the rule table of the pipeline: skip no-reply senders (priority 10), give
\* every message dispatcher 7 (priority 20), and an inactive skip-everything
DbRules ==
    <<Rule(1, TRUE, 10, FALSE, "AND", FromNoReply, <<SkipAction(1)>>),
      Rule(2, TRUE, 20, FALSE, "AND", <<>>, <<SetFieldAction(2, "dispatcher_id", 7)>>),
      Rule(3, FALSE, 30, FALSE, "AND", <<>>, <<SkipAction(3)>>)>>

\* EmailSyncStats(sync_time=...) with the rule_skipped counter the service uses
EmailSyncStats(sync_time) ==
    [total_processed |-> 0, new_emails |-> 0, duplicates_skipped |-> 0,
     rule_skipped |-> 0, errors |-> 0, sync_time |-> sync_time]

never_exists(rows, message_id) == FALSE

\* EmailDatabaseService.check_email_exists
check_email_exists(rows, message_id) ==
    \E i \in 1..Len(rows) : rows[i].message_id = message_id

\* EmailSyncService._create_email_model: the keyword arguments given to
\* EmailModel
create_email_model(parsed_email) ==
    [message_id |-> parsed_email.message_id, sender |-> parsed_email.sender,
     subject |-> parsed_email.subject, dispatcher_id |-> parsed_email.dispatcher_id]

\* EmailModel.to_db_dict: the columns of the INSERT. EmailModel declares no
\* dispatcher_id, so the keyword is dropped and no such column is written.
to_db_dict(email) ==
    [message_id |-> email.message_id, sender |-> email.sender, subject |-> email.subject]

\* the row of INSERT INTO emails (columns of email_data): a column that is
\* not given keeps its default, NULL
EmailRow(email_id, email_data) ==
    [id |-> email_id, message_id |-> email_data.message_id,
     sender |-> email_data.sender, subject |-> email_data.subject,
     dispatcher_id |-> IF "dispatcher_id" \in DOMAIN email_data
                       THEN email_data.dispatcher_id ELSE <<>>]

\* FileStorageService.generate_filename: a fresh stored name per call
stored_filename(run, uid, k) == <<run, uid, k>>

\* FileStorageService.save_attachment, the write done: the file now on disk,
\* written during run run, and the file_info returned
save_attachment(run, uid, k, filename, content) ==
    [file |-> [stored_filename |-> stored_filename(run, uid, k),
               size |-> Len(content), mtime |-> run],
     file_info |-> [original_filename |-> filename,
                    stored_filename |-> stored_filename(run, uid, k),
                    file_size |-> Len(content)]]

\* FileStorageService.cleanup_old_files: every file older than cutoff_time is
\* unlinked, except those whose unlink fails
cleanup_old_files(store, cutoff_time, undeleted) ==
    {f \in store : f.mtime >= cutoff_time \/ f \in undeleted}

stop_at_failed_write(atts, k, run, uid, write_fails, store) ==
    IF k > Len(atts) \/ write_fails THEN [models |-> <<>>, files |-> store]
    ELSE LET saved == save_attachment(run, uid, k, atts[k].filename, atts[k].content)
         IN  [models |-> <<saved.file_info>>, files |-> store \cup {saved.file}]

\* EmailSyncService._process_attachments: attachment k of the message is
\* written unless it is empty or its write fails (write_fails = TRUE fails the
\* first write); gives the attachment models and the files now in the store
RECURSIVE process_attachments(_, _, _, _, _, _)
process_attachments(atts, k, run, uid, write_fails, store) ==
    IF k > Len(atts) THEN [models |-> <<>>, files |-> store]
    ELSE IF atts[k].content = <<>>
         THEN process_attachments(atts, k + 1, run, uid, write_fails, store)
    ELSE IF write_fails
         THEN process_attachments(atts, k + 1, run, uid, FALSE, store)
    ELSE LET saved == save_attachment(run, uid, k, atts[k].filename, atts[k].content)
             rest == process_attachments(atts, k + 1, run, uid, FALSE,
                                         store \cup {saved.file})
         IN  [models |-> <<saved.file_info>> \o rest.models,
              files |-> rest.files]

\* the INSERT INTO attachments loop of save_email_with_attachments
RECURSIVE insert_attachments(_, _, _)
insert_attachments(att_rows, email_id, models) ==
    IF models = <<>> THEN att_rows
    ELSE insert_attachments(
             Append(att_rows, [id |-> Len(att_rows) + 1, email_id |-> email_id,
                               original_filename |-> Head(models).original_filename,
                               stored_filename |-> Head(models).stored_filename,
                               file_size |-> Head(models).file_size]),
             email_id, Tail(models))

save_nothing(rows, att_rows, email, models) ==
    [emails |-> rows, attachments |-> att_rows, email_id |-> 0]

\* EmailDatabaseService.save_email_with_attachments, committed
save_email_with_attachments(rows, att_rows, email, models) ==
    LET existing == {i \in 1..Len(rows) : rows[i].message_id = email.message_id}
    IN  IF existing # {}
        THEN LET email_id == rows[Min(existing)].id
                 count == Cardinality({j \in 1..Len(att_rows) :
                                          att_rows[j].email_id = email_id})
             IN  IF count > 0
                 THEN [emails |-> rows, attachments |-> att_rows, email_id |-> email_id]
                 ELSE [emails |-> rows,
                       attachments |-> insert_attachments(att_rows, email_id, models),
                       email_id |-> email_id]
        ELSE LET email_id == Len(rows) + 1
             IN  [emails |-> Append(rows, EmailRow(email_id, to_db_dict(email))),
                  attachments |-> insert_attachments(att_rows, email_id, models),
                  email_id |-> email_id]

\* EmailReader.mark_as_unflagged: the flag of uid is cleared upstream
mark_as_unflagged(flags, uid) == [flags EXCEPT ![uid] = FALSE]

\* the search for FLAGGED of _get_mail_uids: the flagged uids in ascending order
RECURSIVE search_emails(_, _)
search_emails(flags, from) ==
    IF from > NumUids THEN <<>>
    ELSE (IF flags[from] THEN <<from>> ELSE <<>>) \o search_emails(flags, from + 1)

search_failure_ignored(flags, limit, search_ok) ==
    LET uids == search_emails(flags, 1)
    IN  IF limit # 0 /\ Len(uids) > limit THEN SubSeq(uids, 1, limit) ELSE uids

newest_limit(flags, limit, search_ok) ==
    IF ~search_ok THEN <<>>
    ELSE LET uids == search_emails(flags, 1)
         IN  IF limit # 0 /\ Len(uids) > limit
             THEN SubSeq(uids, Len(uids) - limit + 1, Len(uids)) ELSE uids

\* EmailSyncService._get_mail_uids; limit 0 stands for None, search_ok = FALSE
\* for a failure of select_folder or search_emails
get_mail_uids(flags, limit, search_ok) ==
    IF ~search_ok THEN <<>>
    ELSE LET uids == search_emails(flags, 1)
         IN  IF limit # 0 /\ Len(uids) > limit THEN SubSeq(uids, 1, limit) ELSE uids

(***************************************************************************)
(* The ingestion pipeline (services/email_sync.py, tasks/scheduler.py).    *)
(***************************************************************************)
\* where one message's processing may fail: fetch raises, fetch returns no
\* bytes, parse raises, the dedup query raises, the rules cannot be loaded,
\* an exception escapes the rule loop, the first attachment write fails, the
\* save transaction fails, the flag cannot be cleared
Faults == {"none", "fetch", "fetch_empty", "parse", "exists", "rules_load",
           "rules_raise", "write", "save", "mark"}

\* how apply_rules goes under a fault
rules_outcome(fault) ==
    IF fault = "rules_load" THEN "error"
    ELSE IF fault = "rules_raise" THEN "raise" ELSE "ok"

\* what the pipeline reads and writes while it processes a message
Store == [stats |-> sync_stats, flagged |-> flagged, emails |-> emails,
          attachments |-> attachments, files |-> files]

\* the ways _process_single_email ends: it returns along path, or it raises
\* because of fault
Returned(st, path, should_skip) ==
    st @@ [raised |-> FALSE, fault |-> "none", path |-> path, should_skip |-> should_skip]
Raised(st, fault, should_skip) ==
    st @@ [raised |-> TRUE, fault |-> fault, path |-> "raised", should_skip |-> should_skip]

count_as_new(stats) == [stats EXCEPT !.new_emails = @ + 1]

\* the counter of the skip branch: self.sync_stats.rule_skipped += 1
count_rule_skipped(stats) == [stats EXCEPT !.rule_skipped = @ + 1]

\* _process_single_email from the rule engine's verdict on: the skip branch,
\* or model, attachments, save and flag clearing
process_new_email(st, uid, run, fault, parsed_email, rule_result) ==
    IF rule_result.should_skip
    THEN IF fault = "mark" THEN Raised(st, fault, TRUE)
         ELSE Returned([st EXCEPT !.flagged = mark_as_unflagged(@, uid),
                                  !.stats = count_rule_skipped(@)],
                       "rule_skipped", TRUE)
    ELSE LET email_model == create_email_model(parsed_email)
             stored == process_attachments(parsed_email.attachments, 1, run, uid,
                                           fault = "write", st.files)
             written == [st EXCEPT !.files = stored.files]
         IN  IF fault = "save" THEN Raised(written, fault, FALSE)
             ELSE LET saved == save_email_with_attachments(
                                   st.emails, st.attachments, email_model, stored.models)
                      counted == [written EXCEPT !.emails = saved.emails,
                                                 !.attachments = saved.attachments,
                                                 !.stats.new_emails = @ + 1]
                  IN  IF fault = "mark" THEN Raised(counted, fault, FALSE)
                      ELSE Returned([counted EXCEPT
                                        !.flagged = mark_as_unflagged(@, uid)],
                                    "saved", FALSE)

process_without_id_check(st0, uid, run, fault) ==
    LET st == [st0 EXCEPT !.stats.total_processed = @ + 1]
        parsed_email == Message(uid)
    IN  IF fault \in {"fetch", "parse", "exists"} THEN Raised(st, fault, FALSE)
        ELSE IF fault = "fetch_empty" THEN Returned(st, "unfetchable", FALSE)
        ELSE IF check_email_exists(st.emails, parsed_email.message_id)
             THEN Returned([st EXCEPT !.stats.duplicates_skipped = @ + 1],
                           "duplicate", FALSE)
        ELSE LET applied == apply_rules(parsed_email, DbRules, rules_outcome(fault))
             IN  process_new_email(st, uid, run, fault, applied.email_data, applied.result)

\* EmailSyncService._process_single_email(reader, uid)
process_single_email(st0, uid, run, fault) ==
    LET st == [st0 EXCEPT !.stats.total_processed = @ + 1]
        parsed_email == Message(uid)
    IN  IF fault = "fetch" THEN Raised(st, fault, FALSE)
        ELSE IF fault = "fetch_empty" THEN Returned(st, "unfetchable", FALSE)
        ELSE IF fault = "parse" THEN Raised(st, fault, FALSE)
        ELSE IF parsed_email.message_id = "" THEN Returned(st, "no_message_id", FALSE)
        ELSE IF fault = "exists" THEN Raised(st, fault, FALSE)
        ELSE IF check_email_exists(st.emails, parsed_email.message_id)
             THEN Returned([st EXCEPT !.stats.duplicates_skipped = @ + 1],
                           "duplicate", FALSE)
        ELSE LET applied == apply_rules(parsed_email, DbRules, rules_outcome(fault))
             IN  process_new_email(st, uid, run, fault, applied.email_data, applied.result)

uid_error_ignored(stats) == stats

\* the except branch around one message in the for loop of sync_emails
uid_error(stats) == [stats EXCEPT !.errors = @ + 1]

never_busy(syncing) == FALSE

\* the entry test of sync_emails: if self.is_syncing
entry_busy(syncing) == syncing

not_released(syncing) == syncing

\* the finally branch of sync_emails: self.is_syncing = False
finally_release(syncing) == FALSE

\* what a trigger that finds a run in flight answers: trigger_manual_sync
\* gives success = False, sync_emails_task gets the stats back and logs them
BusyAnswer(t) == IF t = "manual" THEN "refused" ELSE "skipped"

NoStep == [run |-> 0, uid |-> 0, fault |-> "none", path |-> "none", should_skip |-> FALSE,
           rules |-> "ok"]

Init ==
    /\ is_syncing = FALSE
    /\ sync_stats = EmailSyncStats(<<>>)
    /\ last_sync_time = <<>>
    /\ connected = FALSE
    /\ clock = 0
    /\ task_pc = [t \in Tasks |-> "idle"]
    /\ mail_uids = [t \in Tasks |-> <<>>]
    /\ idx = [t \in Tasks |-> 0]
    /\ start_time = [t \in Tasks |-> 0]
    /\ response = [t \in Tasks |-> "none"]
    /\ flagged = [u \in Uids |-> TRUE]
    /\ emails = <<>>
    /\ attachments = <<>>
    /\ files = {}
    /\ last = NoStep
    /\ re_rules = DbRules
    /\ re_pc = "off"
    /\ re_sorted = <<>>
    /\ re_pos = 0
    /\ re_st = <<>>
    /\ email_forwards = <<>>
    /\ fw = <<>>
    /\ tx = <<>>

db_vars == <<emails, attachments, files>>
run_vars == <<task_pc, mail_uids, idx, start_time>>

\* EmailSyncService.sync_emails(limit), called by task t, from its entry to the
\* for loop. io is "ok", "connect" (the mailbox cannot be reached) or "search"
\* (select_folder or the search fails); limit 0 stands for None
sync_emails(t, limit, io) ==
    IF entry_busy(is_syncing)
    THEN /\ response' = [response EXCEPT ![t] = IF t = "manual" THEN "ok" ELSE "skipped"]
         /\ UNCHANGED <<is_syncing, sync_stats, last_sync_time, connected, clock,
                        run_vars, flagged, db_vars, last, engine_vars, forward_vars, tx>>
    ELSE /\ clock < MaxRuns
         /\ clock' = clock + 1
         \* no uid processed yet; a failure to connect or to search is noted
         /\ last' = [NoStep EXCEPT !.fault = IF io = "ok" THEN "none" ELSE io]
         /\ UNCHANGED <<last_sync_time, flagged, db_vars, engine_vars, forward_vars, tx>>
         /\ LET stats == EmailSyncStats(<<clock + 1>>)
                uids == get_mail_uids(flagged, limit, io = "ok")
            IN  IF io = "connect"
                THEN \* __aenter__ raises: except, finally
                     /\ sync_stats' = [stats EXCEPT !.errors = @ + 1]
                     /\ is_syncing' = finally_release(TRUE)
                     /\ connected' = FALSE
                     /\ response' = [response EXCEPT ![t] = "failed"]
                     /\ UNCHANGED run_vars
                ELSE IF uids = <<>>
                THEN \* nothing to process: return, __aexit__, finally
                     /\ sync_stats' = stats
                     /\ is_syncing' = finally_release(TRUE)
                     /\ connected' = FALSE
                     /\ response' = [response EXCEPT ![t] = "ok"]
                     /\ UNCHANGED run_vars
                ELSE /\ sync_stats' = stats
                     /\ is_syncing' = TRUE
                     /\ connected' = TRUE
                     /\ response' = [response EXCEPT ![t] = "none"]
                     /\ task_pc' = [task_pc EXCEPT ![t] = "running"]
                     /\ mail_uids' = [mail_uids EXCEPT ![t] = uids]
                     /\ idx' = [idx EXCEPT ![t] = 1]
                     /\ start_time' = [start_time EXCEPT ![t] = clock + 1]

\* SchedulerManager.sync_emails_task: the scheduled tick; the job runs one
\* instance at a time
sync_emails_task ==
    /\ task_pc["sched"] = "idle"
    /\ \E io \in {"ok", "connect", "search"} : sync_emails("sched", 0, io)

\* SchedulerManager.trigger_manual_sync(limit)
trigger_manual_sync ==
    /\ task_pc["manual"] = "idle"
    /\ IF is_syncing
       THEN /\ response' = [response EXCEPT !["manual"] = BusyAnswer("manual")]
            /\ UNCHANGED <<is_syncing, sync_stats, last_sync_time, connected, clock,
                           run_vars, flagged, db_vars, last, engine_vars, forward_vars, tx>>
       ELSE \E limit \in {0, 1}, io \in {"ok", "connect", "search"} :
                sync_emails("manual", limit, io)

\* one iteration of the for loop of sync_emails in the run of task t, and,
\* after the last uid, the end of the run: last_sync_time, return, __aexit__,
\* finally
sync_emails_loop(t) ==
    /\ task_pc[t] = "running"
    /\ \E fault \in Faults :
         LET uid == mail_uids[t][idx[t]]
         IN  \E out \in {process_single_email(Store, uid, start_time[t], fault)} :
             /\ sync_stats' = IF out.raised THEN uid_error(out.stats) ELSE out.stats
             /\ flagged' = out.flagged
             /\ emails' = out.emails
             /\ attachments' = out.attachments
             /\ files' = out.files
             /\ last' = [run |-> start_time[t], uid |-> uid, fault |-> out.fault,
                         path |-> out.path, should_skip |-> out.should_skip,
                         rules |-> rules_outcome(fault)]
    /\ IF idx[t] < Len(mail_uids[t])
       THEN /\ idx' = [idx EXCEPT ![t] = @ + 1]
            /\ UNCHANGED <<is_syncing, last_sync_time, connected, task_pc, mail_uids,
                           start_time, response>>
       ELSE /\ last_sync_time' = <<start_time[t]>>
            /\ connected' = FALSE
            /\ is_syncing' = finally_release(is_syncing)
            /\ task_pc' = [task_pc EXCEPT ![t] = "idle"]
            /\ mail_uids' = [mail_uids EXCEPT ![t] = <<>>]
            /\ idx' = [idx EXCEPT ![t] = 0]
            /\ response' = [response EXCEPT ![t] = "ok"]
            /\ UNCHANGED start_time
    /\ UNCHANGED <<clock, engine_vars, forward_vars, tx>>

Next ==
    \/ sync_emails_task
    \/ trigger_manual_sync
    \/ \E t \in Tasks : sync_emails_loop(t)

Spec == Init /\ [][Next]_vars

(***************************************************************************)
(* SpecLive: manual ticks repeated without end, all with one limit         *)
(* (tx.limit, 0 for None). The mailbox starts with any set of flagged      *)
(* uids, and with the message of uid 1 stored or not: a stored message is  *)
(* flagged when its flag could not be cleared or was set again upstream.   *)
(* The clock stands still, so that the ticks can go on in a finite state   *)
(* space. The ticks taken are those in which the mailbox is reached and    *)
(* searched and the processing of every uid returns normally; fairness     *)
(* says that ticks and their steps go on.                                  *)
(***************************************************************************)
InitLive ==
    /\ is_syncing = FALSE
    /\ sync_stats = EmailSyncStats(<<>>)
    /\ last_sync_time = <<>>
    /\ connected = FALSE
    /\ clock = 0
    /\ task_pc = [t \in Tasks |-> "idle"]
    /\ mail_uids = [t \in Tasks |-> <<>>]
    /\ idx = [t \in Tasks |-> 0]
    /\ start_time = [t \in Tasks |-> 0]
    /\ response = [t \in Tasks |-> "none"]
    /\ flagged \in [Uids -> BOOLEAN]
    /\ emails \in {<<>>, save_email_with_attachments(
                              <<>>, <<>>, create_email_model(Message(1)), <<>>).emails}
    /\ attachments = <<>>
    /\ files = {}
    /\ last = NoStep
    /\ re_rules = DbRules
    /\ re_pc = "off"
    /\ re_sorted = <<>>
    /\ re_pos = 0
    /\ re_st = <<>>
    /\ email_forwards = <<>>
    /\ fw = <<>>
    /\ tx \in {[limit |-> limit] : limit \in {0, 1}}

\* trigger_manual_sync(tx.limit) when no run is in flight: sync_emails from
\* its entry to the for loop, at the standing clock, the mailbox being
\* reached and searched
LiveSync ==
    /\ task_pc["manual"] = "idle"
    /\ ~entry_busy(is_syncing)
    /\ last' = NoStep
    /\ LET stats == EmailSyncStats(<<clock + 1>>)
           uids == get_mail_uids(flagged, tx.limit, TRUE)
       IN     IF uids = <<>>
              THEN /\ sync_stats' = stats
                   /\ is_syncing' = finally_release(TRUE)
                   /\ connected' = FALSE
                   /\ response' = [response EXCEPT !["manual"] = "ok"]
                   /\ UNCHANGED run_vars
              ELSE /\ sync_stats' = stats
                   /\ is_syncing' = TRUE
                   /\ connected' = TRUE
                   /\ response' = [response EXCEPT !["manual"] = "none"]
                   /\ task_pc' = [task_pc EXCEPT !["manual"] = "running"]
                   /\ mail_uids' = [mail_uids EXCEPT !["manual"] = uids]
                   /\ idx' = [idx EXCEPT !["manual"] = 1]
                   /\ start_time' = [start_time EXCEPT !["manual"] = clock + 1]
    /\ UNCHANGED <<clock, last_sync_time, flagged, db_vars, engine_vars, forward_vars, tx>>

\* one iteration of the for loop that returns normally
LiveStep ==
    /\ sync_emails_loop("manual")
    /\ last'.path \in {"saved", "rule_skipped", "duplicate", "no_message_id"}

NextLive == LiveSync \/ LiveStep

\* weak fairness of both actions; that of LiveStep is written out, LiveStep
\* being enabled exactly while the run is in its loop
SpecLive ==
    /\ InitLive
    /\ [][NextLive]_vars
    /\ WF_vars(LiveSync)
    /\ ([]<>(task_pc["manual"] # "running") \/ []<><<LiveStep>>_vars)

(***************************************************************************)
(* SpecStore: the pipeline together with the attachment store's cleanup.   *)
(***************************************************************************)
\* FileStorageService.cleanup_old_files(days), called at any moment: the
\* cutoff lies anywhere up to now, and now is later than every write so far
CleanupOldFiles ==
    /\ \E cutoff_time \in 1..(clock + 1) :
          \E undeleted \in SUBSET {f \in files : f.mtime < cutoff_time} :
             /\ files' = cleanup_old_files(files, cutoff_time, undeleted)
             /\ files' # files
    /\ UNCHANGED <<is_syncing, sync_stats, last_sync_time, connected, clock, run_vars,
                   response, flagged, emails, attachments, last, engine_vars,
                   forward_vars, tx>>

NextStore == Next \/ CleanupOldFiles

SpecStore == Init /\ [][NextStore]_vars

(***************************************************************************)
(* SpecForward: forward requests (services/email_forwarder.py) running     *)
(* side by side on one stored message, one awaited call per step.          *)
(*                                                                         *)
(* A row of email_forwards is [id, email_id, forward_status,               *)
(* error_message]; error_message "" is NULL.                               *)
(***************************************************************************)
NumRequests == 2
Requests == 1..NumRequests

\* how the delivery of the composed message ends: delivered, or one of the
\* except branches of _smtp_send, or a failure while composing
SendOutcomes == {"delivered", "auth", "recipients", "disconnected", "other", "compose"}

\* str(e) of an exception raised by a repository call
ExceptionTexts == {"", "db error"}

\* EmailForward(email_id=..., forward_status="pending")
EmailForward(email_id) ==
    [id |-> 0, email_id |-> email_id, forward_status |-> "pending", error_message |-> ""]

\* EmailDatabaseService.get_email_by_id: <<>> is None
get_email_by_id(rows, email_id) ==
    LET found == {i \in 1..Len(rows) : rows[i].id = email_id}
    IN  IF found = {} THEN <<>> ELSE <<rows[Min(found)]>>

\* EmailDatabaseService.save_email_forward, committed: cursor.lastrowid
save_email_forward(table, forward) ==
    [table |-> Append(table, [forward EXCEPT !.id = Len(table) + 1]),
     forward_id |-> Len(table) + 1]

\* EmailDatabaseService.update_forward_status, committed: the UPDATE writes
\* error_message only when the argument is truthy
update_forward_status(table, forward_id, status, error_message) ==
    [i \in 1..Len(table) |->
        IF table[i].id # forward_id THEN table[i]
        ELSE IF error_message # ""
             THEN [table[i] EXCEPT !.forward_status = status,
                                   !.error_message = error_message]
             ELSE [table[i] EXCEPT !.forward_status = status]]

committed_then_raised(table, updated) == updated

\* DatabaseManager.get_transaction when the block or the commit raises:
\* rollback, the table is as before the call
transaction_raised(table, updated) == table

\* EmailForwarder._smtp_send: True, or False from each except branch
smtp_send(outcome) == outcome = "delivered"

\* EmailForwarder._send_forward_email: an exception while composing gives False
send_forward_email(outcome) ==
    IF outcome = "compose" THEN FALSE ELSE smtp_send(outcome)

FwIdle ==
    [pc |-> "idle", email_id |-> 0, forward_id |-> 0, outcome |-> "none",
     success |-> FALSE, error_msg |-> "", returned |-> FALSE,
     to_addresses |-> <<>>, status_code |-> 0]

recipients_unchecked(rows, email_id, to_addresses) ==
    IF get_email_by_id(rows, email_id) = <<>> THEN 404 ELSE 0

\* the two validations of the route POST /emails/{email_id}/forward: the
\* status_code of the HTTPException raised, 0 when none is
forward_route(rows, email_id, to_addresses) ==
    IF get_email_by_id(rows, email_id) = <<>> THEN 404
    ELSE IF to_addresses = <<>> THEN 400
    ELSE 0

InitForward ==
    /\ is_syncing = FALSE
    /\ sync_stats = <<>>
    /\ last_sync_time = <<>>
    /\ connected = FALSE
    /\ clock = 0
    /\ task_pc = <<>>
    /\ mail_uids = <<>>
    /\ idx = <<>>
    /\ start_time = <<>>
    /\ response = <<>>
    /\ flagged = <<>>
    /\ emails = save_email_with_attachments(
                    <<>>, <<>>, create_email_model(
                        ParsedEmail("a", <<"n", "@", "x">>, <<"H", "i">>, <<>>)), <<>>).emails
    /\ attachments = <<>>
    /\ files = {}
    /\ last = <<>>
    /\ re_rules = <<>>
    /\ re_pc = "off"
    /\ re_sorted = <<>>
    /\ re_pos = 0
    /\ re_st = <<>>
    /\ email_forwards = <<>>
    /\ fw = [r \in Requests |-> FwIdle]
    /\ tx = <<>>

\* the route up to its call of forwarder.forward_email: an exception of
\* get_email_by_id is answered 500
FwRoute(r) ==
    /\ fw[r].pc = "idle"
    /\ \E email_id \in {1, 2}, to_addresses \in {<<>>, <<"x">>}, db \in {"ok", "raise"} :
          LET status_code == IF db = "raise" THEN 500
                             ELSE forward_route(emails, email_id, to_addresses)
          IN  fw' = [fw EXCEPT ![r] = [@ EXCEPT !.pc = IF status_code = 0 THEN "call" ELSE "done",
                                                !.email_id = email_id,
                                                !.to_addresses = to_addresses,
                                                !.status_code = status_code]]
    /\ UNCHANGED <<email_forwards, pipeline_vars, engine_vars, tx>>

\* the route after forwarder.forward_email has returned
FwAnswer(r) ==
    /\ fw[r].pc = "done"
    /\ fw[r].to_addresses # <<>>
    /\ fw[r].status_code = 0
    /\ fw' = [fw EXCEPT ![r].status_code = IF fw[r].returned THEN 200 ELSE 500]
    /\ UNCHANGED <<email_forwards, pipeline_vars, engine_vars, tx>>

\* forward_email up to the record: load the message and its attachments;
\* the route is its only caller
FwLoad(r) ==
    /\ fw[r].pc = "call"
    /\ \E email_id \in {fw[r].email_id}, db \in {"ok", "raise"} :
          fw' = [fw EXCEPT ![r] =
                    IF db = "raise" \/ get_email_by_id(emails, email_id) = <<>>
                    THEN [@ EXCEPT !.pc = "done", !.email_id = email_id, !.returned = FALSE]
                    ELSE [@ EXCEPT !.pc = "save", !.email_id = email_id]]
    /\ UNCHANGED <<email_forwards, pipeline_vars, engine_vars, tx>>

\* save_email_forward of the pending record
FwSave(r) ==
    /\ fw[r].pc = "save"
    /\ \E db \in {"ok", "raise"} :
          IF db = "raise"
          THEN /\ fw' = [fw EXCEPT ![r].pc = "done", ![r].returned = FALSE]
               /\ UNCHANGED email_forwards
          ELSE \E saved \in {save_email_forward(email_forwards, EmailForward(fw[r].email_id))} :
                  /\ email_forwards' = saved.table
                  /\ fw' = [fw EXCEPT ![r].pc = "send", ![r].forward_id = saved.forward_id]
    /\ UNCHANGED <<pipeline_vars, engine_vars, tx>>

\* _send_forward_email
FwSend(r) ==
    /\ fw[r].pc = "send"
    /\ \E outcome \in SendOutcomes :
          fw' = [fw EXCEPT ![r].pc = "update", ![r].outcome = outcome,
                           ![r].success = send_forward_email(outcome)]
    /\ UNCHANGED <<email_forwards, pipeline_vars, engine_vars, tx>>

\* the update after the send: "sent", or "failed" with the fixed message
FwUpdate(r) ==
    /\ fw[r].pc = "update"
    /\ LET updated == IF fw[r].success
                      THEN update_forward_status(email_forwards, fw[r].forward_id, "sent", "")
                      ELSE update_forward_status(email_forwards, fw[r].forward_id, "failed",
                                                 "Failed to send email")
       IN  \/ /\ email_forwards' = updated
              /\ fw' = [fw EXCEPT ![r].pc = "done", ![r].returned = fw[r].success]
           \/ \E text \in ExceptionTexts :
                 /\ email_forwards' = transaction_raised(email_forwards, updated)
                 /\ fw' = [fw EXCEPT ![r].pc = "except", ![r].error_msg = text]
    /\ UNCHANGED <<pipeline_vars, engine_vars, tx>>

\* the inner except branch: "failed" with str(e); if this update raises too,
\* the outer except branch returns False
FwExcept(r) ==
    /\ fw[r].pc = "except"
    /\ LET updated == update_forward_status(email_forwards, fw[r].forward_id, "failed",
                                            fw[r].error_msg)
       IN  \/ email_forwards' = updated
           \/ email_forwards' = transaction_raised(email_forwards, updated)
    /\ fw' = [fw EXCEPT ![r].pc = "done", ![r].returned = FALSE]
    /\ UNCHANGED <<pipeline_vars, engine_vars, tx>>

forward_email(r) == FwLoad(r) \/ FwSave(r) \/ FwSend(r) \/ FwUpdate(r) \/ FwExcept(r)

NextForward == \E r \in Requests : forward_email(r) \/ FwRoute(r) \/ FwAnswer(r)

SpecForward == InitForward /\ [][NextForward]_vars

(***************************************************************************)
(* SpecSubject: the subject line _send_forward_email composes, for a       *)
(* stored message and then for the forwarded message forwarded again. A    *)
(* subject is <<>> for None or <<s>> for the string s; fw holds the        *)
(* subject of the stored message and the subject lines composed so far.    *)
(***************************************************************************)
MaxSubject == 4
MaxForwards == 2
SubjectChars == {"F", "W", "w", "d", "f", ":", " "}
Subjects ==
    {<<>>} \cup {<<s>> : s \in UNION {[1..n -> SubjectChars] : n \in 0..MaxSubject}}

always_prefixed(subject) ==
    <<"F", "w", "d", ":", " ">> \o (IF subject = <<>> THEN <<>> ELSE subject[1])

\* forward_subject of EmailForwarder._send_forward_email
forward_subject(subject) ==
    LET original_subject == IF subject = <<>> THEN <<>> ELSE subject[1]
    IN  IF /\ ~startswith(original_subject, <<"F", "w", "d", ":">>)
           /\ ~startswith(original_subject, <<"F", "W", ":">>)
        THEN <<"F", "w", "d", ":", " ">> \o original_subject
        ELSE original_subject

InitSubject ==
    /\ is_syncing = FALSE
    /\ sync_stats = <<>>
    /\ last_sync_time = <<>>
    /\ connected = FALSE
    /\ clock = 0
    /\ task_pc = <<>>
    /\ mail_uids = <<>>
    /\ idx = <<>>
    /\ start_time = <<>>
    /\ response = <<>>
    /\ flagged = <<>>
    /\ emails = <<>>
    /\ attachments = <<>>
    /\ files = {}
    /\ last = <<>>
    /\ re_rules = <<>>
    /\ re_pc = "off"
    /\ re_sorted = <<>>
    /\ re_pos = 0
    /\ re_st = <<>>
    /\ email_forwards = <<>>
    /\ fw \in {[subject |-> s, sent |-> <<>>] : s \in Subjects}
    /\ tx = <<>>

\* the subject of one forward: of the stored message, or of the message the
\* forward before it has sent
FwSubject ==
    /\ Len(fw.sent) < MaxForwards
    /\ LET subject == IF fw.sent = <<>> THEN fw.subject ELSE <<fw.sent[Len(fw.sent)]>>
       IN  fw' = [fw EXCEPT !.sent = Append(@, forward_subject(subject))]
    /\ UNCHANGED <<email_forwards, pipeline_vars, engine_vars, tx>>

NextSubject == FwSubject

SpecSubject == InitSubject /\ [][NextSubject]_vars

(***************************************************************************)
(* SpecSave: calls of save_email_with_attachments on the repository, one   *)
(* statement of the transaction per step. emails and attachments are the   *)
(* committed tables, what every other connection sees; the rows the        *)
(* transaction has written so far are in tx.                               *)
(***************************************************************************)
MaxCalls == 2

\* the message models given to the repository
SaveEmails ==
    {create_email_model(ParsedEmail("a", <<"n", "@", "x">>, <<"H", "i">>, <<>>)),
     create_email_model(ParsedEmail("b", <<"u", "@", "x">>, <<"H", "i">>, <<>>))}

\* the attachment models given with them: none, one, two
SaveModels ==
    {<<>>,
     <<save_attachment(1, 1, 1, "f", <<1>>).file_info>>,
     <<save_attachment(1, 1, 1, "f", <<1>>).file_info,
       save_attachment(1, 1, 2, "g", <<1, 2>>).file_info>>}

\* no call in progress: the calls made so far, the outcome and return value of
\* the latest, and in prev the arguments of every call, the latest first
TxIdle(calls, outcome, returned, prev) ==
    [pc |-> "idle", calls |-> calls, outcome |-> outcome, returned |-> returned,
     prev |-> prev]

InitSave ==
    /\ is_syncing = FALSE
    /\ sync_stats = <<>>
    /\ last_sync_time = <<>>
    /\ connected = FALSE
    /\ clock = 0
    /\ task_pc = <<>>
    /\ mail_uids = <<>>
    /\ idx = <<>>
    /\ start_time = <<>>
    /\ response = <<>>
    /\ flagged = <<>>
    /\ emails = <<>>
    /\ attachments = <<>>
    /\ files = {}
    /\ last = <<>>
    /\ re_rules = <<>>
    /\ re_pc = "off"
    /\ re_sorted = <<>>
    /\ re_pos = 0
    /\ re_st = <<>>
    /\ email_forwards = <<>>
    /\ fw = <<>>
    /\ tx = TxIdle(0, "none", 0, <<>>)

save_unchanged == <<is_syncing, sync_stats, last_sync_time, connected, clock, run_vars,
                    response, flagged, files, last, engine_vars, forward_vars>>

\* the rows the transaction in progress has inserted
rows_written ==
    (Len(tx.w_emails) - Len(tx.before_emails))
        + (Len(tx.w_attachments) - Len(tx.before_attachments))

keep_written(committed, written) == written

\* DatabaseManager.get_transaction, the except branch: conn.rollback()
rollback(committed, written) == committed

\* the call ends with the exception re-raised after the rollback
TxRaise ==
    /\ emails' = rollback(emails, tx.w_emails)
    /\ attachments' = rollback(attachments, tx.w_attachments)
    /\ tx' = TxIdle(tx.calls, "rolled_back", 0,
                    <<[email |-> tx.email, models |-> tx.models, outcome |-> "rolled_back",
                       before_emails |-> tx.before_emails,
                       before_attachments |-> tx.before_attachments,
                       rows_written |-> rows_written]>> \o tx.prev)

\* the call and conn.begin()
TxBegin ==
    /\ tx.pc = "idle"
    /\ tx.calls < MaxCalls
    /\ \E email \in SaveEmails, models \in SaveModels :
          tx' = [pc |-> "email", calls |-> tx.calls + 1, email |-> email,
                 models |-> models, email_id |-> 0, k |-> 1, inserted |-> FALSE,
                 w_emails |-> emails, w_attachments |-> attachments,
                 before_emails |-> emails, before_attachments |-> attachments,
                 prev |-> tx.prev]
    /\ UNCHANGED <<emails, attachments, save_unchanged>>

\* step 1 of the transaction: the SELECT by message_id, then either the
\* COUNT of the existing row's attachments or the INSERT INTO emails
TxEmail ==
    /\ tx.pc = "email"
    /\ \/ TxRaise
       \/ /\ LET existing == {i \in 1..Len(tx.w_emails) :
                                 tx.w_emails[i].message_id = tx.email.message_id}
             IN  IF existing # {}
                 THEN LET email_id == tx.w_emails[Min(existing)].id
                          count == Cardinality({j \in 1..Len(tx.w_attachments) :
                                                   tx.w_attachments[j].email_id = email_id})
                      IN  tx' = [tx EXCEPT !.email_id = email_id,
                                           !.pc = IF count > 0 \/ tx.models = <<>>
                                                  THEN "commit" ELSE "attach"]
                 ELSE tx' = [tx EXCEPT
                                !.email_id = Len(tx.w_emails) + 1,
                                !.inserted = TRUE,
                                !.w_emails = Append(@, EmailRow(Len(tx.w_emails) + 1,
                                                                to_db_dict(tx.email))),
                                !.pc = IF tx.models = <<>> THEN "commit" ELSE "attach"]
          /\ UNCHANGED <<emails, attachments>>
    /\ UNCHANGED save_unchanged

\* step 2: one INSERT INTO attachments of the for loop
TxAttachment ==
    /\ tx.pc = "attach"
    /\ \/ TxRaise
       \/ /\ tx' = [tx EXCEPT
                       !.w_attachments = insert_attachments(@, tx.email_id, <<tx.models[tx.k]>>),
                       !.k = @ + 1,
                       !.pc = IF tx.k = Len(tx.models) THEN "commit" ELSE "attach"]
          /\ UNCHANGED <<emails, attachments>>
    /\ UNCHANGED save_unchanged

\* the return inside the with block: conn.commit()
TxCommit ==
    /\ tx.pc = "commit"
    /\ \/ TxRaise
       \/ /\ emails' = tx.w_emails
          /\ attachments' = tx.w_attachments
          /\ tx' = TxIdle(tx.calls, "committed", tx.email_id,
                          <<[email |-> tx.email, models |-> tx.models, outcome |-> "committed",
                             before_emails |-> tx.before_emails,
                             before_attachments |-> tx.before_attachments,
                       rows_written |-> rows_written]>> \o tx.prev)
    /\ UNCHANGED save_unchanged

NextSave == TxBegin \/ TxEmail \/ TxAttachment \/ TxCommit

SpecSave == InitSave /\ [][NextSave]_vars

(***************************************************************************)
(* Pipeline properties, checked under Spec.                                *)
(***************************************************************************)
\* the step just taken processed a message (last names its run and uid)
Processed == last' # last /\ last'.uid \in Uids

\* C1: at most one run is in flight; a trigger that finds is_syncing set leaves
\* its task idle (nothing is queued), answers busy (trigger_manual_sync:
\* success = False) and changes neither the connection, the counters, the
\* rows, the files nor the upstream flags.
C1_AtMostOneRun ==
    /\ [](Cardinality({t \in Tasks : task_pc[t] = "running"}) <= 1)
    /\ [][\A t \in Tasks :
            (is_syncing /\ task_pc[t] = "idle") =>
                /\ task_pc'[t] = "idle"
                /\ response'[t] # response[t] =>
                       /\ response'[t] = BusyAnswer(t)
                       /\ UNCHANGED <<is_syncing, sync_stats, last_sync_time, connected,
                                      clock, run_vars, flagged, db_vars, last>>]_vars

\* a manual trigger was refused while the scheduled run is in flight
C1_RefusedWhileRunning ==
    /\ is_syncing
    /\ task_pc["sched"] = "running"
    /\ task_pc["manual"] = "idle"
    /\ response["manual"] = "refused"

\* C2 as stated: a uid's flag is cleared by a step exactly when that step
\* committed the save of the uid's message.
C2_ClearedIffCommitted ==
    [][\A u \in Uids :
          (flagged[u] /\ ~flagged'[u])
              <=> (Processed /\ last'.uid = u /\ Len(emails') > Len(emails))]_vars

\* C2 as the code has it: a flag is never set again; a uid's flag is cleared
\* only by the step that processes the uid, and only if that step committed
\* the save of its message or the rule engine decided to skip it; a step that
\* committed the save clears the flag unless the flag-clearing call fails.
C2_ClearedOnlyAfterCommitOrSkip ==
    [][\A u \in Uids :
          /\ ~flagged[u] => ~flagged'[u]
          /\ (flagged[u] /\ ~flagged'[u]) =>
                /\ Processed /\ last'.uid = u
                /\ \/ /\ Len(emails') = Len(emails) + 1
                      /\ emails'[Len(emails')].message_id = Message(u).message_id
                   \/ last'.path = "rule_skipped" /\ emails' = emails
          /\ (Processed /\ last'.uid = u /\ Len(emails') > Len(emails)
                 /\ last'.fault # "mark") => ~flagged'[u]]_vars

\* a save committed and the flag could not be cleared: the row is stored and
\* the uid is still flagged
C2_CommittedButStillFlagged ==
    /\ last.fault = "mark"
    /\ ~last.should_skip
    /\ flagged[last.uid]
    /\ check_email_exists(emails, Message(last.uid).message_id)

\* C3: message_id is unique among the rows and a row never changes; processing
\* a uid whose message_id is already stored (and whose fetch, parse and dedup
\* query work) adds no message row, no attachment row and no file, leaves
\* new_emails unchanged and adds one to duplicates_skipped, so that a tick over
\* that uid alone reports new_emails = 0 and duplicates_skipped = 1.
C3_DedupOnReplay ==
    /\ [](\A i, j \in 1..Len(emails) :
             emails[i].message_id = emails[j].message_id => i = j)
    /\ [](\A i \in 1..Len(emails) : emails[i].id = i)
    /\ [][/\ Len(emails') >= Len(emails)
          /\ \A i \in 1..Len(emails) : emails'[i] = emails[i]
          /\ (/\ Processed
              /\ last'.path \notin {"raised", "unfetchable"}
              /\ \E i \in 1..Len(emails) :
                     emails[i].message_id = Message(last'.uid).message_id) =>
                /\ UNCHANGED db_vars
                /\ sync_stats'.new_emails = sync_stats.new_emails
                /\ sync_stats'.duplicates_skipped = sync_stats.duplicates_skipped + 1
                /\ sync_stats'.total_processed = 1 =>
                       /\ sync_stats'.new_emails = 0
                       /\ sync_stats'.duplicates_skipped = 1]_vars

\* the second tick offered one stored message again and reported it duplicate
C3_ReplayedInSecondTick ==
    /\ last.path = "duplicate"
    /\ last.run = 2
    /\ emails # <<>>
    /\ sync_stats.total_processed = 1
    /\ sync_stats.duplicates_skipped = 1
    /\ sync_stats.new_emails = 0


\* C4: when processing a uid raises (in the fetch, the parse, the dedup query,
\* the save, or the clearing of the flag), errors grows by exactly one and no
\* other outcome counter moves, the uid stays flagged, and the run goes on:
\* to the next uid of the tick, or after the last one to its normal end; a
\* failure before the commit stores no row.
C4_FailureIsolation ==
    [][\A t \in Tasks :
          (task_pc[t] = "running" /\ Processed /\ last'.path = "raised") =>
             /\ last'.fault \in {"fetch", "parse", "exists", "save", "mark"}
             /\ sync_stats'.errors = sync_stats.errors + 1
             /\ sync_stats'.total_processed = sync_stats.total_processed + 1
             /\ sync_stats'.duplicates_skipped = sync_stats.duplicates_skipped
             /\ sync_stats'.rule_skipped = sync_stats.rule_skipped
             /\ flagged' = flagged
             /\ flagged'[last'.uid]
             /\ last'.fault \in {"fetch", "parse", "exists", "save"} =>
                    /\ emails' = emails
                    /\ attachments' = attachments
                    /\ sync_stats'.new_emails = sync_stats.new_emails
             /\ IF idx[t] < Len(mail_uids[t])
                THEN /\ task_pc'[t] = "running"
                     /\ mail_uids'[t] = mail_uids[t]
                     /\ idx'[t] = idx[t] + 1
                ELSE /\ task_pc'[t] = "idle"
                     /\ response'[t] = "ok"
                     /\ last_sync_time' = <<start_time[t]>>]_vars

\* the save of a uid failed, the run went on and stored a later uid
C4_SavedAfterFailure ==
    /\ sync_stats.errors = 1
    /\ sync_stats.new_emails = 1
    /\ last.path = "saved"
    /\ \E u \in Uids : u < last.uid /\ flagged[u] /\ Message(u).message_id = "a"
    /\ emails # <<>>

\* C5: processing a uid whose message_id is already stored adds one to
\* duplicates_skipped and clears the uid's flag.
C5_DuplicateClearsFlag ==
    [][(Processed /\ last'.path = "duplicate") =>
          /\ sync_stats'.duplicates_skipped = sync_stats.duplicates_skipped + 1
          /\ ~flagged'[last'.uid]]_vars

C7_CountersAddUp ==
    (\A t \in Tasks : task_pc[t] = "idle") =>
        sync_stats.total_processed =
            sync_stats.new_emails + sync_stats.duplicates_skipped
                + sync_stats.rule_skipped + sync_stats.errors

\* C8: is_syncing is set exactly while a run is in flight, so it is clear after
\* every end of a run (normal end, empty search, connection failure); a task
\* whose run ended is idle again, and a trigger that finds is_syncing clear is
\* accepted: it starts a run of its own.
C8_ReleasedAfterEveryRun ==
    /\ [](is_syncing <=> \E t \in Tasks : task_pc[t] = "running")
    /\ [](is_syncing <=> connected)
    /\ [][\A t \in Tasks :
            /\ (response'[t] # response[t] /\ response'[t] \in {"ok", "failed"}) =>
                   ~is_syncing' /\ task_pc'[t] = "idle"
            /\ ~is_syncing =>
                   /\ clock' = clock + 1
                   /\ response'[t] # response[t] =>
                          response'[t] \in {"none", "ok", "failed"}]_vars

\* a run that failed to connect was followed by a run that completed
C8_RunAfterFailedRun ==
    /\ ~is_syncing
    /\ response["sched"] = "failed"
    /\ response["manual"] = "ok"
    /\ last_sync_time = <<2>>
    /\ clock = 2

(***************************************************************************)
(* Rule engine properties, checked under SpecRules.                        *)
(***************************************************************************)
\* the rule the loop is about to evaluate, and whether the step just taken
\* matched it
CurrentRule == re_sorted[re_pos]
StepMatched == re_st'.rules_matched = re_st.rules_matched + 1

\* C9: rules are evaluated in descending priority, and rules of equal priority
\* in ascending id: of two rules evaluated one after the other, the first has
\* the greater priority, or the same priority and the smaller id.
C9_PriorityDescThenIdAsc ==
    \A k \in 1..(Len(re_st.evaluated) - 1) :
        LET first == re_rules[re_st.evaluated[k]]
            second == re_rules[re_st.evaluated[k + 1]]
        IN  \/ first.priority > second.priority
            \/ first.priority = second.priority /\ first.id < second.id

\* what the sort of apply_rules gives instead: equal priorities in descending id
C9_EvaluatedTieLargerIdFirst ==
    /\ re_pc = "done"
    /\ Len(re_st.evaluated) = 2
    /\ re_rules[re_st.evaluated[1]].priority = re_rules[re_st.evaluated[2]].priority
    /\ re_st.evaluated[1] > re_st.evaluated[2]

C11_HigherPriorityValueStored ==
    (/\ re_pc = "done"
     /\ Len(re_rules) = 2
     /\ re_rules[1].is_active /\ re_rules[2].is_active
     /\ re_rules[1].priority = 20 /\ re_rules[2].priority = 10
     /\ re_rules[1].actions = <<SetFieldAction(1, "dispatcher_id", 7)>>
     /\ re_rules[2].actions = <<SetFieldAction(2, "dispatcher_id", 9)>>
     /\ re_st.final_result.matched_rules = <<re_rules[1].name, re_rules[2].name>>)
        => create_email_model(re_st.email_data).dispatcher_id = <<7>>

\* what the engine gives instead: both rules ran in priority order and the
\* lower-priority rule wrote last
C11_LowerPriorityValueStored ==
    /\ re_pc = "done"
    /\ Len(re_rules) = 2
    /\ re_rules[1].priority = 20 /\ re_rules[2].priority = 10
    /\ re_st.evaluated = <<1, 2>>
    /\ re_st.executed = <<1, 2>>
    /\ re_rules[1].actions = <<SetFieldAction(1, "dispatcher_id", 7)>>
    /\ create_email_model(re_st.email_data).dispatcher_id = <<9>>

\* the evaluated conditions of the group, by position
Evaluated == 1..Len(re_st.results)

\* position k holds a regular-expression operator given the malformed pattern
MalformedAt(k, operator) ==
    /\ re_sorted[k].operator = operator
    /\ "[" \in Range(re_sorted[k].match_value)

\* C12: on a pattern that is not a valid regular expression a regex condition
\* evaluates to false, so that an AND group needing it does not match, a
\* not_regex condition evaluates to true, and the evaluation returns a boolean
\* instead of raising.
C12_MalformedPatternIsSafe ==
    re_pc \in {"cond", "group", "done"} =>
        /\ \A k \in Evaluated :
              /\ re_st.results[k] \in BOOLEAN
              /\ re_st.faults[k] = "none" =>
                    /\ MalformedAt(k, "regex") => re_st.results[k] = FALSE
                    /\ MalformedAt(k, "not_regex") => re_st.results[k] = TRUE
        /\ (/\ re_pc = "done"
            /\ re_rules[1].condition_groups[1].group_logic = "AND"
            /\ \E k \in Evaluated : re_st.faults[k] = "none" /\ MalformedAt(k, "regex"))
               => /\ ~re_st.matched
                  /\ ~evaluate_rule(re_rules[1], re_st.email_data)

\* a group whose first condition is a not_regex on the malformed pattern and
\* which went on to its second condition and was decided
C12_MalformedNotRegexEvaluated ==
    /\ re_pc = "done"
    /\ Len(re_st.results) = 2
    /\ re_st.faults = <<"none", "none">>
    /\ MalformedAt(1, "not_regex")
    /\ re_st.results[1] = TRUE

DictBefore(k) == IF k = 1 THEN re_st.given ELSE re_st.dicts[k - 1]

\* the action at position k failed in one of the ways of C14: it raised, or it
\* is a set_field on a field other than dispatcher_id
FailedAt(k) ==
    \/ re_st.faults[k] = "raise"
    \/ /\ re_sorted[k].action_type = "set_field"
       /\ re_sorted[k].action_config.present
       /\ re_sorted[k].action_config.field_name # "dispatcher_id"

RecordOf(r) == email_forwards[fw[r].forward_id]

\* C15: a forward record is created pending, its status is always pending,
\* sent or failed, and a step changes the status of a record only from pending
\* to sent or from pending to failed: no record leaves sent or failed, and no
\* record is removed.
C15_StatusMonotonic ==
    /\ [](\A i \in 1..Len(email_forwards) :
             email_forwards[i].forward_status \in {"pending", "sent", "failed"})
    /\ [][/\ Len(email_forwards') >= Len(email_forwards)
          /\ \A i \in 1..Len(email_forwards') :
                IF i > Len(email_forwards)
                THEN email_forwards'[i].forward_status = "pending"
                ELSE \/ email_forwards'[i].forward_status = email_forwards[i].forward_status
                     \/ /\ email_forwards[i].forward_status = "pending"
                        /\ email_forwards'[i].forward_status \in {"sent", "failed"}]_vars

\* a delivered forward whose update to sent raised and whose record was then
\* set to failed, next to a record that is sent
C15_FailedAfterSentUpdateRaised ==
    \E r, q \in Requests :
        /\ fw[r].pc = "done" /\ fw[r].outcome = "delivered" /\ fw[r].forward_id > 0
        /\ RecordOf(r).forward_status = "failed"
        /\ fw[q].pc = "done" /\ fw[q].forward_id > 0
        /\ RecordOf(q).forward_status = "sent"

\* C16: every forward record whose status is failed has a non-empty
\* error_message.
C16_FailedHasErrorMessage ==
    \A i \in 1..Len(email_forwards) :
        email_forwards[i].forward_status = "failed" => email_forwards[i].error_message # ""

\* the update after the send raised an exception whose text is empty, and the
\* record ended failed without error_message
C16_FailedWithoutErrorMessage ==
    \E r \in Requests :
        /\ fw[r].pc = "done" /\ fw[r].forward_id > 0
        /\ fw[r].error_msg = ""
        /\ RecordOf(r).forward_status = "failed"
        /\ RecordOf(r).error_message = ""

\* the three failures of the relay that C17 tells apart
RelayFailures == {"auth", "recipients", "disconnected"}

\* C17: the record of a finished forward is sent exactly when the relay
\* delivered the message; after an authentication failure, a recipient
\* rejection or a transport failure it is failed, with an error message that
\* differs from the one of each other kind of failure.
C17_OutcomeDecidesRecord ==
    /\ \A r \in Requests :
          (fw[r].pc = "done" /\ fw[r].forward_id > 0) =>
              /\ RecordOf(r).forward_status = "sent" <=> fw[r].outcome = "delivered"
              /\ fw[r].outcome \in RelayFailures =>
                    /\ RecordOf(r).forward_status = "failed"
                    /\ RecordOf(r).error_message # ""
    /\ \A r, q \in Requests :
          (/\ fw[r].pc = "done" /\ fw[r].forward_id > 0
           /\ fw[q].pc = "done" /\ fw[q].forward_id > 0
           /\ fw[r].outcome \in RelayFailures /\ fw[q].outcome \in RelayFailures
           /\ fw[r].outcome # fw[q].outcome)
              => RecordOf(r).error_message # RecordOf(q).error_message

\* an authentication failure and a recipient rejection, both recorded without
\* any repository failure, carry the same error message
C17_SameMessageForTwoKinds ==
    \E r, q \in Requests :
        /\ fw[r].pc = "done" /\ fw[r].outcome = "auth"
        /\ fw[q].pc = "done" /\ fw[q].outcome = "recipients"
        /\ fw[r].forward_id > 0 /\ fw[q].forward_id > 0
        /\ RecordOf(r).forward_status = "failed"
        /\ RecordOf(q).forward_status = "failed"
        /\ RecordOf(r).error_message = "Failed to send email"
        /\ RecordOf(q).error_message = "Failed to send email"

\* C23: a fetched and parsed message without message_id is skipped: its
\* upstream flag stays set, no row and no attachment file is written, and the
\* rule engine has no say (nothing is counted as new, as a duplicate, as
\* skipped by a rule or as an error).
C23_NoMessageIdSkipped ==
    [][(/\ Processed
        /\ Message(last'.uid).message_id = ""
        /\ last'.fault \notin {"fetch", "parse"}
        /\ last'.path # "unfetchable") =>
          /\ last'.path = "no_message_id"
          /\ ~last'.should_skip
          /\ flagged' = flagged
          /\ flagged'[last'.uid]
          /\ UNCHANGED db_vars
          /\ sync_stats' = [sync_stats EXCEPT !.total_processed = @ + 1]]_vars

\* the message of uid 3, which has no message_id, was passed over after a
\* message had been saved in the same run, and is still flagged
C23_PassedOverStillFlagged ==
    /\ last.path = "no_message_id"
    /\ last.uid = 3
    /\ flagged[3]
    /\ emails # <<>>
    /\ \A i \in 1..Len(emails) : emails[i].message_id # ""

\* C24: a run takes the uids the upstream search returned, in that order, cut
\* to the first limit of them when a limit is given and the search returned
\* more; it processes them one per step in that order, the next only after
\* the one before, and no other run processes anything meanwhile.
C24_UidsInSearchOrder ==
    [][/\ \A t \in Tasks :
             (task_pc[t] = "idle" /\ task_pc'[t] = "running") =>
                 LET found == search_emails(flagged, 1)
                 IN  /\ idx'[t] = 1
                     /\ \E limit \in {0, 1} :
                           /\ t = "sched" => limit = 0
                           /\ mail_uids'[t] =
                                 IF limit # 0 /\ Len(found) > limit
                                 THEN SubSeq(found, 1, limit) ELSE found
       /\ Processed =>
             \E t \in Tasks :
                 /\ task_pc[t] = "running"
                 /\ \A o \in Tasks \ {t} : task_pc[o] = "idle"
                 /\ last'.uid = mail_uids[t][idx[t]]
                 /\ IF idx[t] < Len(mail_uids[t])
                    THEN /\ idx'[t] = idx[t] + 1
                         /\ task_pc'[t] = "running"
                         /\ mail_uids'[t] = mail_uids[t]
                    ELSE task_pc'[t] = "idle"]_vars

\* a manual run with limit 1 processed uid 1 alone and ended, while uids 2
\* and 3, which the search had returned too, are still flagged
C24_LimitedRunEnded ==
    /\ clock = 1
    /\ response["manual"] = "ok"
    /\ task_pc["manual"] = "idle"
    /\ last.uid = 1
    /\ sync_stats.total_processed = 1
    /\ flagged[2] /\ flagged[3]

\* C25: a tick that starts when the upstream holds nothing new (every uid is
\* unflagged, or its message is stored already, or its message has no
\* message_id) starts counting new_emails at 0, and none of its steps adds a
\* message row, an attachment row or a file, sets a flag or counts a new
\* message.
C25_NothingNewNoDeltas ==
    [][(\A u \in Uids :
           \/ ~flagged[u]
           \/ Message(u).message_id = ""
           \/ \E i \in 1..Len(emails) :
                 emails[i].message_id = Message(u).message_id) =>
          /\ UNCHANGED db_vars
          /\ \A u \in Uids : flagged'[u] => flagged[u]
          /\ clock' # clock => sync_stats'.new_emails = 0
          /\ Processed => sync_stats'.new_emails = sync_stats.new_emails]_vars

\* the second tick has gone over the message the first tick had stored
\* without clearing its flag, and over the message without message_id, and
\* has ended
C25_SecondTickOverStored ==
    /\ clock = 2
    /\ last.run = 2
    /\ last.uid = 3
    /\ \A t \in Tasks : task_pc[t] = "idle"
    /\ Len(emails) = 1
    /\ ~flagged[1] /\ flagged[2] /\ flagged[3]
    /\ sync_stats.total_processed = 2
    /\ sync_stats.duplicates_skipped = 1
    /\ sync_stats.new_emails = 0

\* C26: when the rules were loaded and the message is saved, the inserted
\* row has the dispatcher_id the dict holds after the rule evaluation.
C26_DispatcherCarried ==
    [][(/\ Processed
        /\ last'.path = "saved"
        /\ last'.rules = "ok"
        /\ Len(emails') = Len(emails) + 1) =>
          emails'[Len(emails')].dispatcher_id =
              apply_rules(Message(last'.uid), DbRules, "ok").email_data.dispatcher_id]_vars

\* the message of uid 2 was saved after rule 2 had set dispatcher_id = 7 in
\* its dict, and its row has no dispatcher_id
C26_DispatcherLost ==
    /\ last.path = "saved"
    /\ last.rules = "ok"
    /\ last.uid = 2
    /\ apply_rules(Message(2), DbRules, "ok").email_data.dispatcher_id = <<7>>
    /\ \E i \in 1..Len(emails) :
          emails[i].message_id = "b" /\ emails[i].dispatcher_id = <<>>

\* C33: the mailbox client is connected exactly while a run is in flight (its
\* session is opened by the run and closed at every end of the run, so that
\* none is carried over to the next tick), and a transport error during an
\* operation of the run puts the client back to disconnected.
C33_ClientSession ==
    /\ [](connected <=> \E t \in Tasks : task_pc[t] = "running")
    /\ [][(Processed /\ last'.fault = "fetch") => ~connected']_vars

\* the fetch of uid 1 has failed and the run goes on to uid 2 with the client
\* still marked connected
C33_ConnectedAfterFetchError ==
    /\ last.uid = 1
    /\ last.fault = "fetch"
    /\ connected
    /\ \E t \in Tasks : task_pc[t] = "running" /\ mail_uids[t][idx[t]] = 2

\* C35: apply_rules returns also when the rules cannot be loaded or an
\* exception escapes its loop, and its result then has should_skip = FALSE
\* and an error message; a message that reaches the rule engine in such a
\* step is counted, stored and unflagged exactly as under an empty result.
C35_RulesFailOpen ==
    /\ \A u \in Uids, load \in {"error", "raise"} :
          LET result == apply_rules(Message(u), DbRules, load).result
          IN  ~result.should_skip /\ result.error_messages # <<>>
    /\ [][(/\ Processed
           /\ last'.rules # "ok"
           /\ last'.path \notin {"no_message_id", "duplicate"})
          => LET st == [Store EXCEPT !.stats.total_processed = @ + 1]
                 out == process_new_email(st, last'.uid, last'.run, "none",
                                          Message(last'.uid), create_empty_result)
             IN  /\ last'.path = "saved"
                 /\ ~last'.should_skip
                 /\ sync_stats' = out.stats
                 /\ flagged' = out.flagged
                 /\ emails' = out.emails
                 /\ attachments' = out.attachments
                 /\ files' = out.files]_vars

\* the message of uid 1, which rule 1 skips, was stored because an exception
\* escaped the rule loop
C35_SkippableMessageStored ==
    /\ last.uid = 1
    /\ last.rules = "raise"
    /\ last.path = "saved"
    /\ apply_rules(Message(1), DbRules, "ok").result.should_skip
    /\ \E i \in 1..Len(emails) : emails[i].message_id = "a"
    /\ ~flagged[1]

\* C36: an iteration of the rule loop over a rule with stop_on_match whose
\* conditions do not match leaves the result and the message as they were
\* and does not end the loop: the next rule in order, if any, is evaluated.
C36_UnmatchedStopRuleGoesOn ==
    [][(/\ re_pc = "loop"
        /\ re_pos' = re_pos + 1
        /\ re_sorted[re_pos].stop_on_match
        /\ ~evaluate_rule(re_sorted[re_pos], re_st.email_data))
       => /\ ~re_st'.broke
          /\ re_st'.final_result = re_st.final_result
          /\ re_st'.email_data = re_st.email_data
          /\ re_st'.evaluated = Append(re_st.evaluated, re_sorted[re_pos].id)
          /\ re_pc' = IF re_pos < Len(re_sorted) THEN "loop" ELSE "done"]_vars

\* the first rule in order has stop_on_match and did not match, and the second
\* was evaluated and matched after it
C36_NextRuleMatchedAfterStopRule ==
    /\ Len(re_sorted) >= 2
    /\ re_pos = 3
    /\ re_sorted[1].stop_on_match
    /\ ~evaluate_rule(re_sorted[1], re_st.email_data)
    /\ re_st.evaluated = <<re_sorted[1].id, re_sorted[2].id>>
    /\ re_st.final_result.matched_rules = <<re_sorted[2].name>>

\* C37: the actions of a matched rule run in the order of (action_order, id),
\* one result each, up to the first result that carries should_skip: the
\* loop has ended there, the skip left the dict as it found it, and the dict
\* is the one the earlier actions produced, a successful set_field among
\* them having written its value.
C37_ActionsInOrderUntilSkip ==
    re_pc \in {"action", "merge", "done"} =>
        LET results == re_st.action_results
            before(k) == IF k = 1 THEN re_st.given ELSE re_st.dicts[k - 1]
        IN  /\ \A i, j \in 1..Len(re_sorted) :
                  i < j => action_before(re_sorted[i], re_sorted[j])
            /\ \A i \in 1..Len(re_sorted) :
                  \E j \in 1..Len(re_sorted) : re_rules[1].actions[j] = re_sorted[i]
            /\ Len(results) <= Len(re_sorted)
            /\ \A k \in 1..Len(results) :
                  /\ results[k].action_id = re_sorted[k].id
                  /\ (results[k].success /\ re_sorted[k].action_type = "set_field")
                        => re_st.dicts[k] =
                               [before(k) EXCEPT ![re_sorted[k].action_config.field_name] =
                                                     re_sorted[k].action_config.field_value]
                  /\ results[k].should_skip
                        => /\ k = Len(results)
                           /\ re_pc # "action"
                           /\ re_st.dicts[k] = before(k)
                           /\ re_st.email_data = before(k)

\* the rows are stored against their action_order; the set_field ordered
\* first has written dispatcher_id, the skip ordered second has ended the
\* loop with the value in place
C37_FieldSetBeforeSkip ==
    /\ re_pc = "done"
    /\ Len(re_sorted) = 2
    /\ re_rules[1].actions[1].action_type = "skip"
    /\ re_rules[1].actions[1].action_order = 2
    /\ re_sorted[1].action_type = "set_field"
    /\ re_sorted[2] = re_rules[1].actions[1]
    /\ Len(re_st.action_results) = 2
    /\ re_st.action_results[2].should_skip
    /\ re_st.given.dispatcher_id = <<>>
    /\ re_st.email_data.dispatcher_id = <<7>>
    /\ re_st.final_result.should_skip

\* C38: once forward_email has returned for a request that saved its forward
\* record, the record's status is sent or failed, whatever failed on the way.
C38_ReturnedRecordSettled ==
    \A r \in Requests :
        (fw[r].pc = "done" /\ fw[r].forward_id > 0)
            => RecordOf(r).forward_status \in {"sent", "failed"}

\* the message was delivered, the update to sent raised, the update to failed
\* in the except branch raised as well: forward_email has returned False and
\* the record is still pending
C38_PendingAfterReturn ==
    \E r \in Requests :
        /\ fw[r].pc = "done"
        /\ fw[r].forward_id > 0
        /\ fw[r].outcome = "delivered"
        /\ ~fw[r].returned
        /\ RecordOf(r).forward_status = "pending"

\* C39: a tick whose select_folder or search_emails fails ends in the same
\* step with fresh counters (errors = 0, total_processed = 0), answers
\* normally, starts no loop over uids, and leaves last_sync_time, the flags,
\* the rows and the files as they were.
C39_FailedSearchEndsQuietly ==
    [][(clock' = clock + 1 /\ last'.fault = "search")
       => /\ sync_stats' = EmailSyncStats(<<clock'>>)
          /\ sync_stats'.errors = 0
          /\ sync_stats'.total_processed = 0
          /\ last_sync_time' = last_sync_time
          /\ flagged' = flagged
          /\ emails' = emails
          /\ attachments' = attachments
          /\ files' = files
          /\ task_pc' = task_pc
          /\ mail_uids' = mail_uids
          /\ ~is_syncing'
          /\ ~connected'
          /\ \E t \in Tasks : response'[t] = "ok" /\ task_pc[t] = "idle"]_vars

\* the second tick's search failed with uids still flagged, after a first
\* tick that had stored a message and set last_sync_time
C39_SearchFailedOverFlaggedUids ==
    /\ clock = 2
    /\ last.fault = "search"
    /\ last.uid = 0
    /\ \E u \in Uids : flagged[u]
    /\ emails # <<>>
    /\ last_sync_time = <<1>>
    /\ sync_stats.errors = 0
    /\ sync_stats.total_processed = 0
    /\ \A t \in Tasks : task_pc[t] = "idle"

(***************************************************************************)
(* Progress, checked under SpecLive.                                       *)
(***************************************************************************)
\* C34: whatever the limit of the repeated ticks, a flagged uid whose message
\* has a message_id leads to that message being stored or to the uid's flag
\* being cleared (which for such a uid happens after the save or the skip by
\* a rule only).
C34_EveryMessageIngested ==
    \A u \in Uids :
        (flagged[u] /\ Message(u).message_id # "")
            ~> (\/ ~flagged[u]
                \/ \E i \in 1..Len(emails) : emails[i].message_id = Message(u).message_id)

\* a tick with limit 1 has ended after reporting the stored message of uid 1
\* as a duplicate; uid 1 is still flagged, and so is uid 2, whose message is
\* not stored
C34_StuckBehindDuplicate ==
    /\ tx.limit = 1
    /\ task_pc["manual"] = "idle"
    /\ last.uid = 1
    /\ last.path = "duplicate"
    /\ flagged[1] /\ flagged[2]
    /\ \A i \in 1..Len(emails) : emails[i].message_id # Message(2).message_id

(***************************************************************************)
(* Attachment store properties, checked under SpecStore and Spec.          *)
(***************************************************************************)
\* the attachment row has its file in the store, with the size the row states
FileOfRow(row) ==
    \E f \in files : f.stored_filename = row.stored_filename /\ f.size = row.file_size

\* C18: every attachment row of a committed message refers to a file that is
\* in the attachment store and whose byte length is the row's file_size, in
\* every state that ingestion and the store's operations reach.
C18_RowsHaveTheirFiles ==
    \A i \in 1..Len(attachments) :
        (\E j \in 1..Len(emails) : emails[j].id = attachments[i].email_id)
            => FileOfRow(attachments[i])

\* cleanup_old_files has removed the file of a committed attachment row
C18_RowWithoutFile ==
    \E i \in 1..Len(attachments) :
        /\ \E j \in 1..Len(emails) : emails[j].id = attachments[i].email_id
        /\ ~\E f \in files : f.stored_filename = attachments[i].stored_filename

\* C19: in the state a message's save has just committed, a file is in the
\* attachment store exactly when an attachment row refers to it, also when
\* an earlier save of the message failed and the message was taken up again.
C19_FileIffRowAtCommit ==
    last.path = "saved" =>
        /\ \A f \in files :
              \E i \in 1..Len(attachments) :
                  attachments[i].stored_filename = f.stored_filename
        /\ \A i \in 1..Len(attachments) : FileOfRow(attachments[i])

\* the message was saved in a later run than the one that wrote a file no row
\* refers to
C19_OrphanFileAfterRetry ==
    /\ last.path = "saved"
    /\ \E f \in files :
          /\ f.mtime < last.run
          /\ f.stored_filename[2] = last.uid
          /\ ~\E i \in 1..Len(attachments) :
                 attachments[i].stored_filename = f.stored_filename

\* C20: a step that saves a message has written the files of all its
\* attachments but at most one, whose write failed; the message row and one
\* row for each written file are committed, errors is not incremented and the
\* upstream flag of the message is cleared.
C20_PartialAttachmentTolerated ==
    [][(Processed /\ last'.path = "saved") =>
          LET uid == last'.uid
              atts == Message(uid).attachments
              written == files' \ files
              new_rows == {i \in 1..Len(attachments') : i > Len(attachments)}
          IN  /\ Len(emails') = Len(emails) + 1
              /\ emails'[Len(emails')].message_id = Message(uid).message_id
              /\ Cardinality(written) >= Len(atts) - 1
              /\ Cardinality(new_rows) = Cardinality(written)
              /\ \A f \in written :
                    \E i \in new_rows :
                        /\ attachments'[i].stored_filename = f.stored_filename
                        /\ attachments'[i].file_size = f.size
                        /\ attachments'[i].email_id = emails'[Len(emails')].id
              /\ sync_stats'.errors = sync_stats.errors
              /\ ~flagged'[uid]]_vars

\* the message with attachments "f" and "g" was saved with the row of "g"
\* only, without an error counted and with its flag cleared
C20_SavedWithSecondAttachmentOnly ==
    /\ last.path = "saved"
    /\ Len(Message(last.uid).attachments) = 2
    /\ Len(attachments) = 1
    /\ attachments[1].original_filename = "g"
    /\ FileOfRow(attachments[1])
    /\ Cardinality(files) = 1
    /\ sync_stats.errors = 0
    /\ ~flagged[last.uid]

(***************************************************************************)
(* Repository properties, checked under SpecSave.                          *)
(***************************************************************************)
\* the latest call returned after its commit
SaveCommitted == tx.pc = "idle" /\ tx.outcome = "committed"

\* the rows of message_id in a table of messages
RowsOf(rows, message_id) == {i \in 1..Len(rows) : rows[i].message_id = message_id}

\* C21: a save of a message_id that already has a row returns the id of that
\* row and inserts no row at all, also when that row has no attachment rows
\* and attachments are given; and a save repeated with the same arguments
\* leaves the rows the first one left.
C21_ExistingMessageInsertsNothing ==
    SaveCommitted =>
        LET call == tx.prev[1]
            existing == RowsOf(call.before_emails, call.email.message_id)
        IN  /\ existing # {} =>
                  /\ tx.returned = call.before_emails[Min(existing)].id
                  /\ emails = call.before_emails
                  /\ attachments = call.before_attachments
            /\ (/\ Len(tx.prev) > 1
                /\ tx.prev[2].outcome = "committed"
                /\ tx.prev[2].email = call.email
                /\ tx.prev[2].models = call.models)
                  => /\ emails = call.before_emails
                     /\ attachments = call.before_attachments

\* the message had a row without attachment rows, and the save added
\* attachment rows to it
C21_AttachmentsAddedToExistingRow ==
    /\ SaveCommitted
    /\ RowsOf(tx.prev[1].before_emails, tx.prev[1].email.message_id) # {}
    /\ emails = tx.prev[1].before_emails
    /\ Len(attachments) > Len(tx.prev[1].before_attachments)
    /\ attachments[Len(attachments)].email_id = tx.returned

\* C22: the save is atomic. While the transaction runs no row it has written
\* is visible; a failure of the message insert, of an attachment insert or of
\* the commit rolls back and leaves the tables as before the call; the
\* message row and its attachment rows become visible in the one step of the
\* commit, all together.
C22_SaveIsAtomic ==
    /\ [](tx.pc # "idle" =>
             /\ emails = tx.before_emails
             /\ attachments = tx.before_attachments)
    /\ [][/\ (tx'.pc = "idle" /\ tx'.outcome = "rolled_back") =>
                /\ emails' = emails
                /\ attachments' = attachments
          /\ (emails' # emails \/ attachments' # attachments) =>
                /\ tx.pc = "commit"
                /\ tx'.pc = "idle" /\ tx'.outcome = "committed"
                /\ LET saved == save_email_with_attachments(emails, attachments,
                                                            tx.email, tx.models)
                   IN  /\ emails' = saved.emails
                       /\ attachments' = saved.attachments
                       /\ tx'.returned = saved.email_id]_vars

\* the insert of the second attachment row failed after the message row and
\* the first attachment row had been written, and no row is visible
C22_RolledBackAfterTwoRows ==
    /\ tx.pc = "idle"
    /\ tx.outcome = "rolled_back"
    /\ tx.prev[1].rows_written = 2
    /\ Len(tx.prev[1].models) = 2
    /\ emails = tx.prev[1].before_emails
    /\ attachments = tx.prev[1].before_attachments
    /\ RowsOf(emails, tx.prev[1].email.message_id) = {}

(***************************************************************************)
(* Rule engine properties, checked under SpecRules.                        *)
(***************************************************************************)
\* C27: with no active rule in the table, apply_rules returns should_skip =
\* FALSE, no matched rule and no field modification, and leaves the dict as
\* it was given.
C27_NoActiveRulesNoEffect ==
    (re_pc = "done" /\ get_all_active_rules(re_rules) = <<>>) =>
        /\ re_st.email_data \in TestEmails
        /\ re_st = loop_start(re_st.email_data)
        /\ LET out == apply_rules(re_st.email_data, re_rules, "ok")
           IN  /\ out.email_data = re_st.email_data
               /\ ~out.result.should_skip
               /\ out.result.matched_rules = <<>>
               /\ out.result.field_modifications = <<>>
               /\ out.result.error_messages = <<>>
               /\ out.evaluated = <<>>

\* apply_rules has returned on a table of two rules, both inactive, the
\* second a skip for every message
C27_OnlyInactiveRules ==
    /\ re_pc = "done"
    /\ Len(re_rules) = 2
    /\ get_all_active_rules(re_rules) = <<>>
    /\ re_rules[2].condition_groups = <<>>
    /\ re_rules[2].actions = <<SkipAction(2)>>


\* C28: a rule without condition groups matches every message, and a
\* condition group without conditions is true, under AND and under OR: the
\* iteration over such a rule counts it as matched.
C28_EmptyMatches ==
    [][(re_pc = "loop" /\ re_pc' \in {"loop", "done"}) =>
          LET rule == re_sorted[re_pos]
              groups == rule.condition_groups
          IN  /\ \A i \in 1..Len(groups) :
                    groups[i].conditions = <<>> => evaluate_group(groups[i], re_st.email_data)
              /\ (\/ groups = <<>>
                  \/ \A i \in 1..Len(groups) : groups[i].conditions = <<>>) =>
                    /\ re_st'.rules_matched = re_st.rules_matched + 1
                    /\ rule.name \in Range(re_st'.final_result.matched_rules)]_vars

\* two rules, the first evaluated with one OR group without conditions under
\* global OR, the second without condition groups, and both matched
C28_EmptyGroupAndNoGroupsMatched ==
    /\ re_pc = "done"
    /\ Len(re_sorted) = 2
    /\ re_sorted[1].global_group_logic = "OR"
    /\ re_sorted[1].condition_groups = <<Group("OR", <<>>)>>
    /\ re_sorted[2].condition_groups = <<>>
    /\ re_st.final_result.matched_rules = <<re_sorted[1].name, re_sorted[2].name>>

\* C29: apply_rules returns should_skip as the disjunction over the actions
\* that ran in the matched rules, and field_modifications as the map of the
\* fields that the set_field actions that ran have set, with the value set
\* last.
C29_EffectSet ==
    re_pc = "done" =>
        LET result == re_st.final_result
            ran == {re_rules[re_st.executed[k]].actions[1] : k \in 1..Len(re_st.executed)}
            fields == {a.action_config.field_name : a \in {b \in ran : b.action_type = "set_field"}}
        IN  /\ result.should_skip = (\E a \in ran : a.action_type = "skip")
            /\ DOMAIN result.field_modifications = fields
            /\ \A f \in fields : result.field_modifications[f] = re_st.email_data[f]

\* rule 1 matched and its set_field has put dispatcher_id = 7 into the dict,
\* while the returned field_modifications is empty
C29_ModificationNotReported ==
    /\ re_pc = "done"
    /\ re_st.executed = <<1>>
    /\ re_rules[1].actions = <<SetFieldAction(1, "dispatcher_id", 7)>>
    /\ re_st.email_data.dispatcher_id = <<7>>
    /\ re_st.final_result.field_modifications = <<>>
    /\ ~re_st.final_result.should_skip

\* C31: a forward request for an email_id without row is answered 404 and one
\* for a stored message with empty to_addresses is answered 400 (500 when the
\* lookup itself raises); such a request never reaches forward_email: it
\* creates no forward record and sends nothing, then or later, and no forward
\* record refers to a message that is not stored.
C31_RefusedRequestLeavesNothing ==
    /\ [](\A i \in 1..Len(email_forwards) :
             get_email_by_id(emails, email_forwards[i].email_id) # <<>>)
    /\ [](\A r \in Requests :
             fw[r].status_code \in {404, 400} =>
                /\ fw[r].pc = "done"
                /\ fw[r].forward_id = 0
                /\ fw[r].outcome = "none")
    /\ [][\A r \in Requests :
             (fw[r].pc = "idle" /\ fw'[r].pc # "idle") =>
                LET missing == get_email_by_id(emails, fw'[r].email_id) = <<>>
                    status_code == fw'[r].status_code
                IN  /\ missing => status_code \in {404, 500}
                    /\ (~missing /\ fw'[r].to_addresses = <<>>) => status_code \in {400, 500}
                    /\ status_code = 404 => missing
                    /\ status_code = 400 => ~missing /\ fw'[r].to_addresses = <<>>
                    /\ status_code # 0 => email_forwards' = email_forwards
                    /\ status_code = 0 <=> fw'[r].pc = "call"]_vars

\* one request for a missing message with a recipient was answered 404 and
\* one for the stored message without recipients 400, and there is no record
C31_BothRefused ==
    /\ fw[1].pc = "done" /\ fw[1].email_id = 2 /\ fw[1].to_addresses = <<"x">>
    /\ fw[1].status_code = 404
    /\ fw[2].pc = "done" /\ fw[2].email_id = 1 /\ fw[2].to_addresses = <<>>
    /\ fw[2].status_code = 400
    /\ email_forwards = <<>>

(***************************************************************************)
(* Short circuit, checked under SpecCond.                                  *)
(***************************************************************************)
\* C32: the loop over the conditions of a group stops at the first condition
\* that decides the group (false under AND, true under OR): no later
\* condition is evaluated, nor its field extracted, and the result is what
\* the evaluation of all conditions would give. The loop over the groups of a
\* rule stops likewise at the first group that decides the rule, with the
\* result of the evaluation of all groups.
C32_ShortCircuit ==
    re_pc \in {"group", "done"} =>
        LET group == re_rules[1].condition_groups[1]
            logic == group.group_logic
            n == Len(re_st.results)
            e == re_st.email_data
        IN  /\ Len(re_st.faults) = n
            /\ \A k \in 1..(n - 1) : re_st.results[k] = (logic = "AND")
            /\ n < Len(re_sorted) => re_st.results[n] = (logic = "OR")
            /\ re_pc = "done" =>
                  /\ \A rest \in [(n + 1)..Len(re_sorted) -> BOOLEAN] :
                        LET full == [k \in 1..Len(re_sorted) |->
                                        IF k <= n THEN re_st.results[k] ELSE rest[k]]
                        IN  re_st.matched =
                               IF logic = "AND" THEN \A k \in 1..Len(full) : full[k]
                               ELSE \E k \in 1..Len(full) : full[k]
                  /\ (\A k \in 1..n : re_st.faults[k] = "none") =>
                        re_st.matched =
                           IF logic = "AND"
                           THEN \A k \in 1..Len(re_sorted) : evaluate_condition(re_sorted[k], e)
                           ELSE \E k \in 1..Len(re_sorted) : evaluate_condition(re_sorted[k], e)
            /\ \A other \in {Group("AND", <<>>),
                             Group("AND", <<Condition("sender", "equals", <<"x">>, TRUE)>>)},
                  global \in {"AND", "OR"}, first \in BOOLEAN :
                  LET groups == IF first THEN <<group, other>> ELSE <<other, group>>
                      rs == group_results(groups, global, e)
                      rule == [re_rules[1] EXCEPT !.global_group_logic = global,
                                                  !.condition_groups = groups]
                  IN  /\ Len(rs) = IF evaluate_group(groups[1], e) = (global = "OR")
                                   THEN 1 ELSE 2
                      /\ \A i \in 1..Len(rs) : rs[i] = evaluate_group(groups[i], e)
                      /\ evaluate_rule(rule, e) =
                            IF global = "AND"
                            THEN \A i \in 1..2 : evaluate_group(groups[i], e)
                            ELSE \E i \in 1..2 : evaluate_group(groups[i], e)

\* an AND group of two conditions was decided false by its first condition,
\* and its second condition, which holds of the message, was never evaluated
C32_SecondConditionNotEvaluated ==
    /\ re_pc = "done"
    /\ re_rules[1].condition_groups[1].group_logic = "AND"
    /\ Len(re_sorted) = 2
    /\ re_st.results = <<FALSE>>
    /\ re_st.faults = <<"none">>
    /\ evaluate_condition(re_sorted[2], re_st.email_data)
    /\ ~re_st.matched

(***************************************************************************)
(* Forwarded subject, checked under SpecSubject.                           *)
(***************************************************************************)
\* C30: the subject of a forward is the original subject behind "Fwd: ",
\* unless the original begins with "Fwd:" or "FW:" in exactly that case, when
\* it is the original subject; forwarding the forwarded message again leaves
\* the subject as it is.
C30_ForwardSubject ==
    /\ fw.sent # <<>> =>
          LET original == IF fw.subject = <<>> THEN <<>> ELSE fw.subject[1]
              prefixed == \/ Len(original) >= 4 /\ SubSeq(original, 1, 4) = <<"F", "w", "d", ":">>
                          \/ Len(original) >= 3 /\ SubSeq(original, 1, 3) = <<"F", "W", ":">>
          IN  fw.sent[1] = IF prefixed THEN original
                           ELSE <<"F", "w", "d", ":", " ">> \o original
    /\ \A k \in 2..Len(fw.sent) : fw.sent[k] = fw.sent[k - 1]

\* the subject "fwd:", in lower case, was given the prefix, and the second
\* forward has left the result as it was
C30_LowerCasePrefixed ==
    /\ fw.subject = << <<"f", "w", "d", ":">> >>
    /\ fw.sent = << <<"F", "w", "d", ":", " ", "f", "w", "d", ":">>,
                    <<"F", "w", "d", ":", " ", "f", "w", "d", ":">> >>

=============================================================================
